---------------------------- MODULE Spec2Model ----------------------------
(***************************************************************************)
(* A model of the mediabox core: the growable buffered reader              *)
(* (src/mediabox/src/buffer.rs), the memory pool                           *)
(* (src/mediabox/src/memory.rs) and the Matroska demuxer driven by the     *)
(* DemuxerContext (src/mediabox/src/format/mkv/demux.rs, ebml.rs and       *)
(* src/mediabox/src/format.rs),                                            *)
(*                                                                         *)
(* and the Matroska muxer with the EBML writers                            *)
(* (src/mediabox/src/format/mkv/mux.rs, src/mediabox/src/format/mux.rs).   *)
(*                                                                         *)
(* The specifications share the variables:                                 *)
(*   SpecBuf   the reader alone, driven by arbitrary calls                 *)
(*   SpecPool  the pool shared by several threads                          *)
(*   SpecPoolFair  a capped pool whose threads call alloc and drop, with   *)
(*             a thread waiting in recv() woken once a vector is there     *)
(*   SpecPoolShared  the pool whose threads also realize spans with the    *)
(*             Memory values they hold                                     *)
(*   SpecMkv   one DemuxerContext reading a Matroska byte stream           *)
(*   SpecMkvFair  the same over a capped pool, a running call going on     *)
(*   SpecEbml  the EBML writers and readers on bounded inputs              *)
(*   SpecFold  ebml_master_element_fold on bounded lists of children       *)
(*   SpecMux   the Matroska muxer under a SyncMuxerContext, and its file   *)
(*             read back by the demuxer                                    *)
(*   SpecSpan  the operations of Span (src/mediabox/src/span.rs) on        *)
(*             bounded spans                                               *)
(*   SpecNal   the NAL framing functions (src/mediabox/src/codec/nal.rs)   *)
(*             on bounded lists of units                                   *)
(*   SpecProbe find_demuxer (src/mediabox/src/lib.rs) and the probe of     *)
(*             the Matroska demuxer on bounded probe windows               *)
(* Rust slices are 0-based and half open; TLA+ sequences are 1-based, so   *)
(* buf[a..b] is SubSeq(buf, a + 1, b).                                     *)
(***************************************************************************)
EXTENDS Integers, Sequences, FiniteSets, TLC

VARIABLES
    src,        \* the bytes of the source behind the SyncReader
    reader,     \* GrowableBufferedReader: inner (cursor), buf_pos, pos, end, index
    memory,     \* the Vec<u8> handed to the reader on every call: [id, data]
    logical,    \* ghost: the reader's logical absolute position
    op,         \* ghost: the last operation and what it answered
    pool,       \* MemoryPoolImpl.pool: the free list, a sequence of Vec<u8>
    chan,       \* the mpsc channel of returned vectors (send .. recv)
    alloc_count,\* MemoryPoolImpl.alloc_count
    config,     \* MemoryPoolConfig: max_capacity, default_memory_capacity
    lock,       \* the RwLock's writer: Some(thread), or None
    pc,         \* pool threads: where each thread is
    req,        \* pool threads: the size a thread asked for
    held,       \* pool threads: the Memory values a thread holds
    dropped,    \* ghost: the vector dropped last, None once an alloc has run since
    refs,       \* the realized span fragments that reference a vector, by its id
    demuxer,    \* MatroskaDemuxer: movie, timebase, current_cluster_ts, state
    ctx,        \* DemuxerContext: position in its loops, pending answer
    packets,    \* the packets the caller of the context holds
    trail,      \* ghost: the elements the demuxer parsed, in order
    emitted,    \* ghost: the blocks read_packet returned, in order
    ebml,       \* the EBML writers and readers applied to one input
    muxer,      \* MatroskaMuxer: current_cluster_pts, current_cluster_len
    mux,        \* the caller of the muxer: the call running and its answer
    rt,         \* a muxed stream read back by the demuxer
    rope,       \* an operation of Span applied to one span, and its answer
    nal,        \* the NAL framing functions applied to one input
    probed      \* find_demuxer applied to one probe window, and its answer

vars == <<src, reader, memory, logical, op, pool, chan, alloc_count, config,
          lock, pc, req, held, dropped, refs, demuxer, ctx, packets, trail,
          emitted, ebml, muxer, mux, rt, rope, nal, probed>>

readerVars == <<src, reader, memory, logical>>
poolVars   == <<pool, chan, alloc_count, config, lock, pc, req, held, dropped, refs>>
mkvVars    == <<demuxer, ctx, packets, trail, emitted>>
pureVars   == <<rope, nal, probed>>
writerVars == <<ebml, muxer, mux, rt, pureVars>>

None == <<>>          \* Option<T>: None is <<>>, Some(x) is <<x>>
Some(x) == <<x>>

Min(a, b) == IF a < b THEN a ELSE b
Max(a, b) == IF a > b THEN a ELSE b

Zeros(n) == [i \in 1..n |-> 0]

(***************************************************************************)
(* Bounds of the model.                                                    *)
(***************************************************************************)
MaxSrcLen == 4      \* length of the source of SpecBuf
MaxBufLen == 3      \* ensure_capacity is called with len <= MaxBufLen
MaxDelta  == 2      \* seek(Current(d)) is called with |d| <= MaxDelta
MaxIndex  == 3      \* consume is called while index + amt <= MaxIndex
MaxSize   == 2      \* alloc, try_alloc and resize are called with size <= MaxSize
MaxAllocs == 2      \* an uncapped pool creates at most MaxAllocs vectors
MaxHeld   == 2      \* the caller of the context holds at most MaxHeld packets
MaxCapacity == 8    \* default_memory_capacity of the context's pool is 1 or this
MaxShortRead == 2   \* a read of SpecMkv is complete or of at most MaxShortRead bytes
MaxNones == 2       \* read_packet is called until it has returned None MaxNones times
MaxVintBits == 29   \* vints are written for values of at most MaxVintBits + 1 bits
MaxCalls == 3       \* calls of the muxer's methods in one behaviour
ScratchSize == 8    \* a scratch_size of the muxer's context below what a call needs
MaxFragments == 3   \* fragments of a span that is sliced
MaxNals == 2        \* NAL units of a bitstream that is framed and parsed
MaxChildren == 3    \* children of a master element that is folded
MaxChunks == 4      \* chunks (signatures and other bytes) of a probe window
MaxRefs == 2        \* realized fragments of spans that share one Memory

(***************************************************************************)
(* The source of SpecBuf: byte i (0-based) is 10 + i, so that every        *)
(* position of the stream is recognisable and differs from the zero fill.  *)
(***************************************************************************)
BufSource == [i \in 1..MaxSrcLen |-> 9 + i]

(***************************************************************************)
(* std::io::Read for the inner reader: read(&mut buf[end..]) returns n     *)
(* bytes, 0 only at end of file (or into an empty slice); a read may be    *)
(* short.  ReadSizes is the set of n the reader can answer.                *)
(***************************************************************************)
ReadSizes(s, inner, room) ==
    LET left == IF inner >= Len(s) THEN 0 ELSE Len(s) - inner
        most == Min(left, room)
    IN  IF most = 0 THEN {0} ELSE 1..most

\* buf[at .. at+n) := s[inner .. inner+n)
ReadInto(buf, at, s, inner, n) ==
    [i \in 1..Len(buf) |->
        IF i > at /\ i <= at + n THEN s[inner + (i - at)] ELSE buf[i]]

(***************************************************************************)
(* GrowableBufferedReader                                                  *)
(***************************************************************************)
NewReader(kind) ==
    [kind |-> kind, inner |-> 0, buf_pos |-> 0, pos |-> 0, end |-> 0, index |-> 0]

\* buf.copy_within(pos..end, 0)
copy_within(buf, from, to) ==
    [i \in 1..Len(buf) |-> IF i <= to - from THEN buf[from + i] ELSE buf[i]]

reset_buffer_position_keeps_buf_pos(self, buf) ==
    [self |-> [self EXCEPT !.end = self.end - self.pos, !.pos = 0],
     buf  |-> IF self.end - self.pos > 0
              THEN copy_within(buf, self.pos, self.end) ELSE buf]

reset_buffer_position(self, buf) ==
    [self |-> [self EXCEPT !.buf_pos = self.buf_pos + self.pos,
                           !.end = self.end - self.pos,
                           !.pos = 0],
     buf  |-> IF self.end - self.pos > 0
              THEN copy_within(buf, self.pos, self.end) ELSE buf]

\* buf.resize(len, 0)
resize(buf, len) ==
    [i \in 1..len |-> IF i <= Len(buf) THEN buf[i] ELSE 0]

ensure_capacity(self, buf, len) ==
    LET capacity_left == Len(buf) - self.pos
    IN  IF capacity_left >= len THEN [self |-> self, buf |-> buf]
        ELSE IF len <= Len(buf) THEN reset_buffer_position(self, buf)
        ELSE [self |-> self, buf |-> resize(buf, len)]

ensure_additional(self, buf, more) ==
    ensure_capacity(self, buf, (self.end - self.pos) + more)

data(self, buf) == SubSeq(buf, self.pos + 1, self.end)

\* fill_buf with the inner reader answering n bytes; ok is FALSE for the
\* UnexpectedEof error (the compaction has happened by then).
fill_buf(self, buf, s, n) ==
    IF self.pos # 0 \/ self.end # Len(buf)
    THEN LET r == reset_buffer_position(self, buf)
         IN  IF n = 0
             THEN [ok |-> FALSE, self |-> r.self, buf |-> r.buf]
             ELSE [ok |-> TRUE,
                   self |-> [r.self EXCEPT !.end = r.self.end + n,
                                           !.inner = r.self.inner + n],
                   buf |-> ReadInto(r.buf, r.self.end, s, r.self.inner, n)]
    ELSE [ok |-> TRUE, self |-> self, buf |-> buf]

\* the read sizes fill_buf can meet in this state
FillSizes(self, buf, s) ==
    IF self.pos # 0 \/ self.end # Len(buf)
    THEN ReadSizes(s, self.inner, Len(buf) - (self.end - self.pos))
    ELSE {0}

\* Seek for SyncReader, SeekFrom::Current(d): a Stream cannot seek, and a
\* seekable source refuses a negative position.
inner_seek(self, d) ==
    IF self.kind = "Stream" \/ self.inner + d < 0
    THEN [ok |-> FALSE, inner |-> self.inner]
    ELSE [ok |-> TRUE, inner |-> self.inner + d]

\* a seek that hands the caller's offset to the inner reader as it is
seek_caller_offset(self, d) ==
    LET abs_pos == self.buf_pos + self.pos
        abs_end == self.buf_pos + self.end
        new_pos == abs_pos + d
        in      == inner_seek(self, d)
    IN  IF new_pos <= abs_end /\ new_pos >= self.buf_pos
        THEN [ok |-> TRUE, self |-> [self EXCEPT !.pos = new_pos - self.buf_pos]]
        ELSE IF in.ok
        THEN [ok |-> TRUE,
              self |-> [self EXCEPT !.inner = in.inner, !.buf_pos = in.inner,
                                    !.pos = 0, !.end = 0]]
        ELSE [ok |-> FALSE, self |-> self]

\* Seek for GrowableBufferedReader, SeekFrom::Current(d)
seek(self, d) ==
    LET abs_pos == self.buf_pos + self.pos
        abs_end == self.buf_pos + self.end
        new_pos == abs_pos + d
        far     == IF new_pos > abs_end THEN new_pos - abs_end
                   ELSE d - (self.end - self.pos)
        in      == inner_seek(self, far)
    IN  IF new_pos <= abs_end /\ new_pos >= self.buf_pos
        THEN [ok |-> TRUE, self |-> [self EXCEPT !.pos = new_pos - self.buf_pos]]
        ELSE IF in.ok
        THEN [ok |-> TRUE,
              self |-> [self EXCEPT !.inner = in.inner, !.buf_pos = in.inner,
                                    !.pos = 0, !.end = 0]]
        ELSE [ok |-> FALSE, self |-> self]

consume_unclamped(self, amt) ==
    [self EXCEPT !.pos = self.pos + amt, !.index = self.index + amt]

consume(self, amt) ==
    [self EXCEPT !.pos = Min(self.pos + amt, self.end),
                 !.index = self.index + amt]

(***************************************************************************)
(* MemoryPoolImpl.  A Vec<u8> is [id, data]: id names the backing storage  *)
(* (the n-th vector the pool created has id n), data are its bytes.  The   *)
(* operators work on p = [pool, chan, alloc_count] under a config.         *)
(***************************************************************************)
\* the threads sharing the pool of SpecPool
Threads == {1, 2}

NewVec(id, n) == [id |-> id, data |-> Zeros(n)]

\* a swap_remove that leaves the element in the vector
swap_remove_keeps(v, idx) == v

\* Vec::swap_remove(idx), idx 0-based: the last element takes its place
swap_remove(v, idx) ==
    [i \in 1..(Len(v) - 1) |-> IF i = idx + 1 THEN v[Len(v)] ELSE v[i]]

\* iter().position(|m| size <= m.len()), 0-based, None when no element fits
position_fit(v, size) ==
    LET fits == {i \in 1..Len(v) : size <= Len(v[i].data)}
    IN  IF fits = {} THEN None
        ELSE Some((CHOOSE i \in fits : \A j \in fits : i <= j) - 1)

rposition_fit(v, size) ==
    LET fits == {i \in 1..Len(v) : size <= Len(v[i].data)}
    IN  IF fits = {} THEN None
        ELSE Some((CHOOSE i \in fits : \A j \in fits : i >= j) - 1)

find_best_alloc_last(free, size) ==
    LET idx == rposition_fit(free, size)
    IN  IF free = <<>> \/ idx = None THEN [mem |-> None, pool |-> free]
        ELSE [mem |-> Some(free[idx[1] + 1]), pool |-> swap_remove(free, idx[1])]

find_best_alloc(free, size) ==
    LET idx == position_fit(free, size)
    IN  IF free = <<>> \/ idx = None THEN [mem |-> None, pool |-> free]
        ELSE [mem |-> Some(free[idx[1] + 1]), pool |-> swap_remove(free, idx[1])]

find_best_realloc_no_resize(free, size) ==
    IF free = <<>> THEN [mem |-> None, pool |-> free]
    ELSE [mem |-> Some(free[1]), pool |-> swap_remove(free, 0)]

find_best_realloc(free, size) ==
    IF free = <<>> THEN [mem |-> None, pool |-> free]
    ELSE [mem |-> Some([free[1] EXCEPT !.data = resize(free[1].data, size)]),
          pool |-> swap_remove(free, 0)]

\* the vec![0u8; alloc_size] branch of try_alloc
new_memory(p, cfg, size) ==
    [mem |-> Some(NewVec(p.alloc_count + 1, Max(size, cfg.default_memory_capacity))),
     pool |-> p.pool, chan |-> p.chan, alloc_count |-> p.alloc_count + 1]

try_alloc_cap_off_by_one(p, cfg, size) ==
    LET free  == p.pool \o p.chan
        best  == find_best_alloc(free, size)
        re    == find_best_realloc(free, size)
        q     == [pool |-> free, chan |-> <<>>, alloc_count |-> p.alloc_count]
    IN  IF best.mem # None
        THEN [mem |-> best.mem, pool |-> best.pool, chan |-> <<>>,
              alloc_count |-> p.alloc_count]
        ELSE IF cfg.max_capacity # None /\ re.mem # None
        THEN [mem |-> re.mem, pool |-> re.pool, chan |-> <<>>,
              alloc_count |-> p.alloc_count]
        ELSE IF cfg.max_capacity # None /\ p.alloc_count > cfg.max_capacity[1]
        THEN [mem |-> None, pool |-> free, chan |-> <<>>,
              alloc_count |-> p.alloc_count]
        ELSE new_memory(q, cfg, size)

\* try_alloc: drain the channel into the free list, then find_best_alloc,
\* then (capped) find_best_realloc or None at the cap, then a new vector
try_alloc(p, cfg, size) ==
    LET free  == p.pool \o p.chan
        best  == find_best_alloc(free, size)
        re    == find_best_realloc(free, size)
        q     == [pool |-> free, chan |-> <<>>, alloc_count |-> p.alloc_count]
    IN  IF best.mem # None
        THEN [mem |-> best.mem, pool |-> best.pool, chan |-> <<>>,
              alloc_count |-> p.alloc_count]
        ELSE IF cfg.max_capacity # None /\ re.mem # None
        THEN [mem |-> re.mem, pool |-> re.pool, chan |-> <<>>,
              alloc_count |-> p.alloc_count]
        ELSE IF cfg.max_capacity # None /\ p.alloc_count >= cfg.max_capacity[1]
        THEN [mem |-> None, pool |-> free, chan |-> <<>>,
              alloc_count |-> p.alloc_count]
        ELSE new_memory(q, cfg, size)

\* the second half of MemoryPoolImpl::alloc: self.pool.push(recv()) and
\* try_alloc(size).unwrap(); the channel is not empty
alloc_after_recv(p, cfg, size) ==
    try_alloc([p EXCEPT !.pool = Append(p.pool, Head(p.chan)),
                        !.chan = Tail(p.chan)], cfg, size)

PoolState == [pool |-> pool, chan |-> chan, alloc_count |-> alloc_count]

Outstanding == UNION {held[t] : t \in Threads}

\* no span references a vector
NoRefs == [id \in 1..MaxAllocs |-> 0]

(***************************************************************************)
(* EBML (src/mediabox/src/format/mkv/ebml.rs).  A parser takes the input   *)
(* bytes and answers a nom IResult:                                        *)
(*   kind "ok"          rest is the remaining input, val the value         *)
(*   kind "incomplete"  nom::Err::Incomplete(Needed::new(need))            *)
(*   kind "error"       nom::Err::Error(val), val names the EbmlError      *)
(*   kind "panic"       a todo!() or an index out of range                 *)
(***************************************************************************)
\* let v in K(v)
Bind(v, K(_)) == K(v)

Ok(rest, val) == [kind |-> "ok", rest |-> rest, val |-> val, need |-> 0]
Incomplete(n) == [kind |-> "incomplete", rest |-> <<>>, val |-> None, need |-> n]
Error(e)      == [kind |-> "error", rest |-> <<>>, val |-> e, need |-> 0]
Panic         == [kind |-> "panic", rest |-> <<>>, val |-> None, need |-> 0]

\* &input[n..]
Drop(input, n) == SubSeq(input, n + 1, Len(input))
\* &input[..n]
Take(input, n) == SubSeq(input, 1, n)

\* element ids: mkv.rs, as the u32 values the demuxer compares with
EBML_HEADER == 440786851                \* 0x1a45dfa3
EBML_DOC_TYPE == 17026                  \* 0x4282
EBML_DOC_TYPE_VERSION == 17031          \* 0x4287
EBML_DOC_TYPE_READ_VERSION == 17029     \* 0x4285
SEGMENT == 408125543                    \* 0x18538067
INFO == 357149030                       \* 0x1549a966
TIMESTAMP_SCALE == 2807729              \* 0x2ad7b1
TRACKS == 374648427                     \* 0x1654ae6b
TRACK_ENTRY == 174                      \* 0xae
TRACK_NUMBER == 215                     \* 0xd7
TRACK_UID == 29637                      \* 0x73c5
TRACK_TYPE == 131                       \* 0x83
CODEC_ID == 134                         \* 0x86
CODEC_PRIVATE == 25506                  \* 0x63a2
AUDIO == 225                            \* 0xe1
SAMPLING_FREQUENCY == 181               \* 0xb5
CHANNELS == 159                         \* 0x9f
BIT_DEPTH == 25188                      \* 0x6264
CLUSTER == 524531317                    \* 0x1f43b675
TIMESTAMP == 231                        \* 0xe7
SIMPLE_BLOCK == 163                     \* 0xa3
BLOCK_GROUP == 160                      \* 0xa0
BLOCK == 161                            \* 0xa1
\* ids demux.rs names and no file under src/ defines: the values of the
\* element table of the specification
EBML_VERSION == 17030                   \* 0x4286
EBML_READ_VERSION == 17143              \* 0x42f7
EBML_DOC_MAX_ID_LENGTH == 17138         \* 0x42f2
EBML_DOC_MAX_SIZE_LENGTH == 17139       \* 0x42f3
CUES == 475249515                       \* 0x1c53bb6b

TRACK_TYPE_VIDEO == 1
TRACK_TYPE_AUDIO == 2
TRACK_TYPE_SUBTITLE == 17

\* u8::leading_zeros
leading_zeros(byte) ==
    IF byte >= 128 THEN 0 ELSE IF byte >= 64 THEN 1 ELSE IF byte >= 32 THEN 2
    ELSE IF byte >= 16 THEN 3 ELSE IF byte >= 8 THEN 4 ELSE IF byte >= 4 THEN 5
    ELSE IF byte >= 2 THEN 6 ELSE IF byte >= 1 THEN 7 ELSE 8

\* bytes.iter().fold(acc, |acc, b| (acc << 8) | b)
RECURSIVE fold_be(_, _)
fold_be(acc, bytes) ==
    IF bytes = <<>> THEN acc ELSE fold_be(acc * 256 + Head(bytes), Tail(bytes))

\* the value of a vint: the first byte without its length marker, then the
\* extra bytes
vint_value(input, len) ==
    fold_be(input[1] % (2 ^ (8 - len)), SubSeq(input, 2, len))

ebml_vint(input) ==
    IF input = <<>> THEN Incomplete(1)
    ELSE LET extra_bytes == leading_zeros(input[1])
             len == 1 + extra_bytes
         IN  IF extra_bytes > 7 THEN Panic
             ELSE IF Len(input) < len THEN Incomplete(len - Len(input))
             ELSE Ok(Drop(input, len), vint_value(input, len))

Known(v)   == [known |-> TRUE, v |-> v]
Unknown(n) == [known |-> FALSE, v |-> n]

ebml_len(input) ==
    IF input = <<>> THEN Incomplete(1)
    ELSE LET extra_bytes == leading_zeros(input[1])
             len == 1 + extra_bytes
             value == vint_value(input, len)
         IN  IF extra_bytes > 7 THEN Panic
             ELSE IF Len(input) < len THEN Incomplete(len - Len(input))
             ELSE Ok(Drop(input, len),
                     IF value = 2 ^ (7 * len) THEN Unknown(len) ELSE Known(value))

\* the id keeps its length marker
ebml_vid(input) ==
    IF input = <<>> THEN Incomplete(1)
    ELSE LET extra_bytes == leading_zeros(input[1])
             len == 1 + extra_bytes
         IN  IF extra_bytes > 7 THEN Error("UnsupportedSize")
             ELSE IF Len(input) < len THEN Incomplete(len - Len(input))
             ELSE Ok(Drop(input, len), fold_be(0, Take(input, len)))

\* pair(ebml_vid, ebml_len): val is [id, len]
ebml_element_header(input) ==
    Bind(ebml_vid(input), LAMBDA id :
        IF id.kind # "ok" THEN id
        ELSE Bind(ebml_len(id.rest), LAMBDA len :
            IF len.kind # "ok" THEN len
            ELSE Ok(len.rest, [id |-> id.val, len |-> len.val])))

\* nom::bytes::streaming::take(count)
take(count, input) ==
    IF Len(input) < count THEN Incomplete(count - Len(input))
    ELSE Ok(Drop(input, count), Take(input, count))

\* ebml_element(expected_id, ..) with the body the uint, float, str and bin
\* parsers share: the header, the id, size.require(), take(size); val is the
\* bytes of the element
ebml_match(expected_id, input) ==
    Bind(ebml_element_header(input), LAMBDA h :
        IF h.kind # "ok" THEN h
        ELSE IF h.val.id # expected_id THEN Error("UnexpectedElement")
        ELSE IF ~h.val.len.known THEN Error("UnknownSize")
        ELSE take(h.val.len.v, h.rest))

ebml_uint(expected_id, input) ==
    Bind(ebml_match(expected_id, input), LAMBDA m :
        IF m.kind # "ok" THEN m ELSE Ok(m.rest, fold_be(0, m.val)))

\* the strings of the model's files are ASCII: from_utf8 accepts them, and
\* refuses a lone byte >= 0x80
ebml_str(expected_id, input) ==
    Bind(ebml_match(expected_id, input), LAMBDA m :
        IF m.kind # "ok" THEN m
        ELSE IF \E i \in 1..Len(m.val) : m.val[i] >= 128 THEN Error("InvalidString")
        ELSE m)

ebml_bin(expected_id, input) == ebml_match(expected_id, input)

\* the f64 or f32 is read from the first 8 or 4 bytes: val is those bytes
ebml_float(expected_id, input) ==
    Bind(ebml_match(expected_id, input), LAMBDA m :
        IF m.kind # "ok" THEN m
        ELSE Ok(m.rest, IF Len(m.val) >= 8 THEN Take(m.val, 8)
                        ELSE IF Len(m.val) >= 4 THEN Take(m.val, 4) ELSE <<>>))

\* an opt that lets the Error through
opt_keeps_error(r, input) ==
    IF r.kind = "ok" THEN Ok(r.rest, Some(r.val)) ELSE r

\* nom::combinator::opt: an Error becomes Ok(None) without consuming
opt(r, input) ==
    IF r.kind = "ok" THEN Ok(r.rest, Some(r.val))
    ELSE IF r.kind = "error" THEN Ok(input, None)
    ELSE r

(***************************************************************************)
(* ebml_master_element_fold and the closures demux.rs folds with.  The     *)
(* closure is named by kind: "header" (read_ebml_header), "info"           *)
(* (parse_info), "tracks" (parse_tracks), "track" and "audio"              *)
(* (parse_track).                                                          *)
(***************************************************************************)
EbmlHeader ==
    [version |-> None, read_version |-> None, max_id_length |-> None,
     max_size_length |-> None, doc_type |-> None, doc_type_version |-> None,
     doc_type_read_version |-> None]

MkvInfo == [scale |-> None]

MkvTrack ==
    [number |-> None, uid |-> None, ty |-> None, codec_id |-> None,
     codec_private |-> None, audio |-> None]

MkvAudio == [sampling_frequency |-> None, channels |-> None, bit_depth |-> None]

\* the element! lines of each closure, in order: the field, the id and the
\* parser of the line
Line(f, id, parser) == [f |-> f, id |-> id, parser |-> parser]

ClosureLines(kind) ==
    CASE kind = "header" ->
           <<Line("version", EBML_VERSION, "uint"),
             Line("read_version", EBML_READ_VERSION, "uint"),
             Line("max_id_length", EBML_DOC_MAX_ID_LENGTH, "uint"),
             Line("max_size_length", EBML_DOC_MAX_SIZE_LENGTH, "uint"),
             Line("doc_type", EBML_DOC_TYPE, "str"),
             Line("doc_type_version", EBML_DOC_TYPE_VERSION, "uint"),
             Line("doc_type_read_version", EBML_DOC_TYPE_READ_VERSION, "uint")>>
      [] kind = "info" ->
           <<Line("scale", TIMESTAMP_SCALE, "uint")>>
      [] kind = "track" ->
           <<Line("number", TRACK_NUMBER, "uint"),
             Line("uid", TRACK_UID, "uint"),
             Line("ty", TRACK_TYPE, "uint"),
             Line("codec_id", CODEC_ID, "str"),
             Line("codec_private", CODEC_PRIVATE, "bin"),
             Line("audio", AUDIO, "audio")>>
      [] kind = "audio" ->
           <<Line("sampling_frequency", SAMPLING_FREQUENCY, "float"),
             Line("channels", CHANNELS, "uint"),
             Line("bit_depth", BIT_DEPTH, "uint")>>

RECURSIVE ebml_master_element_fold(_, _, _, _)
RECURSIVE fold_children(_, _, _)
RECURSIVE fold_parser(_, _, _)
RECURSIVE element(_, _, _)

\* the parser an element! line names, on the input
LineParser(line, input) ==
    CASE line.parser = "uint" -> ebml_uint(line.id, input)
      [] line.parser = "str" -> ebml_str(line.id, input)
      [] line.parser = "bin" -> ebml_bin(line.id, input)
      [] line.parser = "float" -> ebml_float(line.id, input)
      [] line.parser = "audio" ->
           ebml_master_element_fold(line.id, "audio", MkvAudio, input)

\* the element! lines of a closure, one after the other: a field is parsed
\* only while it is None, an Error leaves it None, and an Incomplete leaves
\* the closure
element(acc, lines, input) ==
    IF lines = <<>> THEN Ok(<<>>, acc)
    ELSE IF acc[Head(lines).f] # None THEN element(acc, Tail(lines), input)
    ELSE Bind(opt(LineParser(Head(lines), input), input), LAMBDA o :
             IF o.kind # "ok" THEN o
             ELSE element([acc EXCEPT ![Head(lines).f] = o.val], Tail(lines), input))

\* the closure of the fold of this kind, on the accumulator and the input
\* that starts at a child
fold_parser(kind, acc, input) ==
    IF kind = "tracks"
    THEN Bind(ebml_master_element_fold(TRACK_ENTRY, "track", MkvTrack, input),
              LAMBDA track :
                  IF track.kind = "ok" THEN Ok(<<>>, Append(acc, track.val))
                  ELSE IF track.kind = "panic" THEN Panic
                  ELSE Ok(<<>>, acc))
    ELSE element(acc, ClosureLines(kind), input)

\* the while loop of the fold over the body of the master
fold_children(kind, acc, input) ==
    IF input = <<>> THEN Ok(<<>>, acc)
    ELSE Bind(ebml_element_header(input), LAMBDA h :
        IF h.kind # "ok" THEN h
        ELSE IF ~h.val.len.known THEN Error("UnknownSize")
        ELSE Bind(fold_parser(kind, acc, input), LAMBDA p :
            IF p.kind # "ok" THEN p
            ELSE IF h.val.len.v > Len(h.rest) THEN Panic
            ELSE fold_children(kind, p.val, Drop(h.rest, h.val.len.v))))

ebml_master_element_fold(expected_id, kind, default, input) ==
    Bind(ebml_element_header(input), LAMBDA h :
        IF h.kind # "ok" THEN h
        ELSE IF h.val.id # expected_id THEN Error("UnexpectedElement")
        ELSE IF ~h.val.len.known THEN Error("UnknownSize")
        ELSE Bind(take(h.val.len.v, h.rest), LAMBDA body :
            IF body.kind # "ok" THEN body
            ELSE Bind(fold_children(kind, default, body.val), LAMBDA acc :
                IF acc.kind # "ok" THEN acc
                ELSE Ok(body.rest, acc.val))))

(***************************************************************************)
(* MatroskaDemuxer (src/mediabox/src/format/mkv/demux.rs).  A demuxer      *)
(* function answers Result<_, DemuxerError>:                               *)
(*   kind "ok"           rest and val as above                             *)
(*   kind "NeedMore"     arg more bytes are needed                         *)
(*   kind "Seek"         SeekFrom::Current(arg)                            *)
(*   kind "EndOfStream", "Misc", "panic"                                   *)
(***************************************************************************)
Answer(kind, arg) == [kind |-> kind, rest |-> <<>>, val |-> None, arg |-> arg]
Done(rest, val)   == [kind |-> "ok", rest |-> rest, val |-> val, arg |-> 0]

\* From<nom::Err<EbmlError>> for DemuxerError, applied by `?`
from_nom(r) ==
    IF r.kind = "incomplete" THEN Answer("NeedMore", r.need)
    ELSE IF r.kind = "error" THEN Answer("Misc", 0)
    ELSE IF r.kind = "panic" THEN Answer("panic", 0)
    ELSE Done(r.rest, r.val)

slice_dist(a, b) == IF Len(a) > Len(b) THEN Len(a) - Len(b) ELSE Len(b) - Len(a)

\* nom::number::streaming::be_i16
be_i16(input) ==
    IF Len(input) < 2 THEN Incomplete(2 - Len(input))
    ELSE LET v == input[1] * 256 + input[2]
         IN  Ok(Drop(input, 2), IF v >= 32768 THEN v - 65536 ELSE v)

\* nom::number::streaming::u8
u8(input) ==
    IF input = <<>> THEN Incomplete(1) ELSE Ok(Drop(input, 1), input[1])

read_simple_block(input) ==
    Bind(ebml_vint(input), LAMBDA track_number :
        IF track_number.kind # "ok" THEN track_number
        ELSE Bind(be_i16(track_number.rest), LAMBDA timestamp :
            IF timestamp.kind # "ok" THEN timestamp
            ELSE Bind(u8(timestamp.rest), LAMBDA flags :
                IF flags.kind # "ok" THEN flags
                ELSE Ok(flags.rest,
                        [track_number |-> track_number.val,
                         timestamp |-> timestamp.val,
                         flags |-> flags.val, buffer |-> flags.rest]))))

read_ebml_header(input) ==
    from_nom(ebml_master_element_fold(EBML_HEADER, "header", EbmlHeader, input))

read_until_segment(input) ==
    Bind(ebml_element_header(input), LAMBDA h :
        IF h.kind # "ok" THEN from_nom(h)
        ELSE IF ~h.val.len.known THEN Answer("Misc", 0)
        ELSE IF h.val.id # SEGMENT
        THEN Answer("Seek", slice_dist(input, h.rest) + h.val.len.v)
        ELSE Done(h.rest, None))

\* convert_track: Some(id) of the track, None when the track is ignored
convert_track(track) ==
    IF track.number = None \/ track.ty = None THEN None
    ELSE IF track.ty[1] \in {TRACK_TYPE_VIDEO, TRACK_TYPE_AUDIO, TRACK_TYPE_SUBTITLE}
    THEN Some(track.number[1])
    ELSE None

\* convert_tracks: the tracks convert_track accepts are pushed in order
RECURSIVE convert_tracks(_, _, _)
convert_tracks(timebase, movie, mkv_tracks) ==
    IF mkv_tracks = <<>> THEN movie
    ELSE LET id == convert_track(Head(mkv_tracks))
         IN  convert_tracks(timebase,
                 IF id = None THEN movie
                 ELSE Append(movie, [id |-> id[1], timebase |-> timebase]),
                 Tail(mkv_tracks))

parse_info(input) ==
    from_nom(ebml_master_element_fold(INFO, "info", MkvInfo, input))

parse_tracks(input) ==
    from_nom(ebml_master_element_fold(TRACKS, "tracks", <<>>, input))

\* Fraction::new(1, (scale / 1000) as u32)
Fraction(numerator, denominator) ==
    [numerator |-> numerator, denominator |-> denominator]

\* State: the enum of demux.rs; tracks and info are the fields of
\* ParseUntilFirstCluster and FALSE in the other states
State(name, tracks, info) == [name |-> name, tracks |-> tracks, info |-> info]

read_segment_elements_early_timebase(self, input) ==
    Bind(ebml_element_header(input), LAMBDA h :
        IF h.kind # "ok" THEN [res |-> from_nom(h), self |-> self]
        ELSE IF ~h.val.len.known THEN [res |-> Answer("Misc", 0), self |-> self]
        ELSE IF h.val.id = INFO
        THEN Bind(parse_info(input), LAMBDA info :
                 IF info.kind # "ok" THEN [res |-> info, self |-> [self EXCEPT !.timebase = Fraction(1, 1000000 \div 1000)]]
                 ELSE [res |-> Done(info.rest, INFO),
                       self |-> [self EXCEPT !.timebase =
                           Fraction(1, (IF info.val.scale = None THEN 1000000
                                        ELSE info.val.scale[1]) \div 1000)]])
        ELSE IF h.val.id = TRACKS
        THEN Bind(parse_tracks(input), LAMBDA tracks :
                 IF tracks.kind # "ok" THEN [res |-> tracks, self |-> self]
                 ELSE [res |-> Done(tracks.rest, TRACKS),
                       self |-> [self EXCEPT !.movie =
                           convert_tracks(self.timebase, self.movie, tracks.val)]])
        ELSE [res |-> Answer("Seek", slice_dist(input, h.rest) + h.val.len.v),
              self |-> self])

\* read_segment_elements: [res, self]; res.val is the id of the element
read_segment_elements(self, input) ==
    Bind(ebml_element_header(input), LAMBDA h :
        IF h.kind # "ok" THEN [res |-> from_nom(h), self |-> self]
        ELSE IF ~h.val.len.known THEN [res |-> Answer("Misc", 0), self |-> self]
        ELSE IF h.val.id = INFO
        THEN Bind(parse_info(input), LAMBDA info :
                 IF info.kind # "ok" THEN [res |-> info, self |-> self]
                 ELSE [res |-> Done(info.rest, INFO),
                       self |-> [self EXCEPT !.timebase =
                           Fraction(1, (IF info.val.scale = None THEN 1000000
                                        ELSE info.val.scale[1]) \div 1000)]])
        ELSE IF h.val.id = TRACKS
        THEN Bind(parse_tracks(input), LAMBDA tracks :
                 IF tracks.kind # "ok" THEN [res |-> tracks, self |-> self]
                 ELSE [res |-> Done(tracks.rest, TRACKS),
                       self |-> [self EXCEPT !.movie =
                           convert_tracks(self.timebase, self.movie, tracks.val)]])
        ELSE [res |-> Answer("Seek", slice_dist(input, h.rest) + h.val.len.v),
              self |-> self])

read_headers_internal_either(self, input) ==
    IF self.state.name = "LookingForEbmlHeader"
    THEN Bind(read_ebml_header(input), LAMBDA r :
             IF r.kind # "ok" THEN [res |-> r, self |-> self]
             ELSE [res |-> r,
                   self |-> [self EXCEPT
                       !.state = State("LookingForSegment", FALSE, FALSE)]])
    ELSE IF self.state.name = "LookingForSegment"
    THEN Bind(read_until_segment(input), LAMBDA r :
             IF r.kind # "ok" THEN [res |-> r, self |-> self]
             ELSE [res |-> r,
                   self |-> [self EXCEPT
                       !.state = State("ParseUntilFirstCluster", FALSE, FALSE)]])
    ELSE IF self.state.name = "ParseUntilFirstCluster"
    THEN Bind(read_segment_elements(self, input), LAMBDA r :
             IF r.res.kind # "ok" THEN r
             ELSE Bind(self.state.tracks \/ r.res.val = TRACKS, LAMBDA tracks :
                  Bind(self.state.info \/ r.res.val = INFO, LAMBDA info :
                      [res |-> r.res,
                       self |-> [r.self EXCEPT !.state =
                           IF tracks \/ info THEN State("ParseClusters", FALSE, FALSE)
                           ELSE State("ParseUntilFirstCluster", tracks, info)]])))
    ELSE [res |-> Answer("panic", 0), self |-> self]

\* read_headers_internal: [res, self]
read_headers_internal(self, input) ==
    IF self.state.name = "LookingForEbmlHeader"
    THEN Bind(read_ebml_header(input), LAMBDA r :
             IF r.kind # "ok" THEN [res |-> r, self |-> self]
             ELSE [res |-> r,
                   self |-> [self EXCEPT
                       !.state = State("LookingForSegment", FALSE, FALSE)]])
    ELSE IF self.state.name = "LookingForSegment"
    THEN Bind(read_until_segment(input), LAMBDA r :
             IF r.kind # "ok" THEN [res |-> r, self |-> self]
             ELSE [res |-> r,
                   self |-> [self EXCEPT
                       !.state = State("ParseUntilFirstCluster", FALSE, FALSE)]])
    ELSE IF self.state.name = "ParseUntilFirstCluster"
    THEN Bind(read_segment_elements(self, input), LAMBDA r :
             IF r.res.kind # "ok" THEN r
             ELSE Bind(self.state.tracks \/ r.res.val = TRACKS, LAMBDA tracks :
                  Bind(self.state.info \/ r.res.val = INFO, LAMBDA info :
                      [res |-> r.res,
                       self |-> [r.self EXCEPT !.state =
                           IF tracks /\ info THEN State("ParseClusters", FALSE, FALSE)
                           ELSE State("ParseUntilFirstCluster", tracks, info)]])))
    ELSE [res |-> Answer("panic", 0), self |-> self]

\* movie.tracks.iter().find(|t| t.id == track_number): Option<Track>
find_track(movie, track_number) ==
    LET hits == {i \in 1..Len(movie) : movie[i].id = track_number}
    IN  IF hits = {} THEN None
        ELSE Some(movie[CHOOSE i \in hits : \A j \in hits : i <= j])

\* u64::checked_add_signed(ts).unwrap_or(0)
checked_add_signed_or_0(a, b) == IF a + b < 0 THEN 0 ELSE a + b

\* convert_block_to_packet: Option<Packet>; the buffer is a copy of the
\* payload (to_vec)
convert_block_to_packet(self, blk) ==
    LET track == find_track(self.movie, blk.track_number)
    IN  IF track = None THEN None
        ELSE Some([time |-> [pts |-> checked_add_signed_or_0(self.current_cluster_ts,
                                                             blk.timestamp),
                             timebase |-> track[1].timebase],
                   key |-> (blk.flags \div 128) % 2 = 1,
                   track |-> track[1],
                   buffer |-> blk.buffer])

\* read_packet_internal: [res, self]; res.val is Option<Packet>
read_packet_internal(self, input) ==
    Bind(ebml_element_header(input), LAMBDA h :
        IF h.kind # "ok" THEN [res |-> from_nom(h), self |-> self]
        ELSE IF h.val.id = CLUSTER THEN [res |-> Done(h.rest, None), self |-> self]
        ELSE IF h.val.id = CUES THEN [res |-> Answer("EndOfStream", 0), self |-> self]
        ELSE IF h.val.id = TIMESTAMP
        THEN Bind(from_nom(ebml_uint(TIMESTAMP, input)), LAMBDA time :
                 IF time.kind # "ok" THEN [res |-> time, self |-> self]
                 ELSE [res |-> Done(time.rest, None),
                       self |-> [self EXCEPT !.current_cluster_ts = time.val]])
        ELSE IF h.val.id = SIMPLE_BLOCK
        THEN IF ~h.val.len.known THEN [res |-> Answer("Misc", 0), self |-> self]
             ELSE Bind(take(h.val.len.v, h.rest), LAMBDA bytes :
                 IF bytes.kind # "ok" THEN [res |-> from_nom(bytes), self |-> self]
                 ELSE Bind(read_simple_block(bytes.val), LAMBDA blk :
                     IF blk.kind # "ok" THEN [res |-> from_nom(blk), self |-> self]
                     ELSE [res |-> Done(bytes.rest,
                                        convert_block_to_packet(self, blk.val)),
                           self |-> self]))
        ELSE IF ~h.val.len.known THEN [res |-> Answer("Misc", 0), self |-> self]
        ELSE [res |-> Answer("Seek", slice_dist(input, h.rest) + h.val.len.v),
              self |-> self])

\* MatroskaDemuxer::new2
new2 ==
    [movie |-> <<>>, timebase |-> Fraction(1, 1), current_cluster_ts |-> 0,
     state |-> State("LookingForEbmlHeader", FALSE, FALSE)]

(***************************************************************************)
(* Values of the variables a specification does not use.                   *)
(***************************************************************************)
ReaderUnused ==
    /\ src = <<>>
    /\ reader = NewReader("Seekable")
    /\ memory = [id |-> 0, data |-> <<>>]
    /\ logical = 0

PoolUnused ==
    /\ pool = <<>>
    /\ chan = <<>>
    /\ alloc_count = 0
    /\ config = [max_capacity |-> None, default_memory_capacity |-> 0]
    /\ lock = None
    /\ pc = [t \in Threads |-> "idle"]
    /\ req = [t \in Threads |-> 0]
    /\ held = [t \in Threads |-> {}]
    /\ dropped = None
    /\ refs = NoRefs

\* DemuxerContext before any call: pc is where the context stands in its
\* loops, call the method running, res the demuxer's last answer, movie
\* what read_headers returned, nones how many times read_packet returned None
NewContext ==
    [pc |-> "idle", call |-> "none", res |-> [kind |-> "none", arg |-> 0],
     movie |-> None, nones |-> 0]

MkvUnused ==
    /\ demuxer = new2
    /\ ctx = NewContext
    /\ packets = {}
    /\ trail = <<>>
    /\ emitted = <<>>

WriterUnused ==
    /\ ebml = [op |-> "none"]
    /\ muxer = [current_cluster_pts |-> 0, current_cluster_len |-> 0]
    /\ mux = [pc |-> "idle"]
    /\ rt = [pc |-> "idle"]
    /\ rope = [op |-> "none"]
    /\ nal = [op |-> "none"]
    /\ probed = [op |-> "none"]

InitBuf ==
    /\ src = BufSource
    /\ \E kind \in {"Seekable", "Stream"} : reader = NewReader(kind)
    /\ \E capacity \in 0..MaxBufLen : memory = [id |-> 0, data |-> Zeros(capacity)]
    /\ logical = 0
    /\ op = [name |-> "new", ok |-> TRUE, arg |-> 0]
    /\ PoolUnused
    /\ MkvUnused
    /\ WriterUnused

(***************************************************************************)
(* SpecBuf: the calls of buffer.rs's test, in any order and with any       *)
(* arguments within the bounds, on one reader and one backing vector.      *)
(***************************************************************************)
BufConsume ==
    \E amt \in 0..MaxIndex :
        /\ reader.index + amt <= MaxIndex
        /\ reader' = consume(reader, amt)
        /\ logical' = logical + Min(amt, reader.end - reader.pos)
        /\ op' = [name |-> "consume", ok |-> TRUE, arg |-> amt]
        /\ UNCHANGED <<src, memory, poolVars, mkvVars, writerVars>>

BufSeek ==
    \E d \in (0 - MaxDelta)..MaxDelta :
        LET r == seek(reader, d)
        IN  /\ reader.buf_pos + reader.pos + d <= Len(src) + MaxDelta
            /\ reader' = r.self
            /\ logical' = IF r.ok THEN logical + d ELSE logical
            /\ op' = [name |-> "seek", ok |-> r.ok, arg |-> d]
            /\ UNCHANGED <<src, memory, poolVars, mkvVars, writerVars>>

BufFill ==
    \E n \in FillSizes(reader, memory.data, src) :
        LET r == fill_buf(reader, memory.data, src, n)
        IN  /\ reader' = r.self
            /\ memory' = [memory EXCEPT !.data = r.buf]
            /\ op' = [name |-> "fill_buf", ok |-> r.ok, arg |-> n]
            /\ UNCHANGED <<src, logical, poolVars, mkvVars, writerVars>>

BufEnsureAdditional ==
    \E more \in 0..MaxBufLen :
        LET r == ensure_additional(reader, memory.data, more)
        IN  /\ (reader.end - reader.pos) + more <= MaxBufLen
            /\ reader' = r.self
            /\ memory' = [memory EXCEPT !.data = r.buf]
            /\ op' = [name |-> "ensure_additional", ok |-> TRUE, arg |-> more]
            /\ UNCHANGED <<src, logical, poolVars, mkvVars, writerVars>>

BufEnsureCapacity ==
    \E len \in 0..MaxBufLen :
        LET r == ensure_capacity(reader, memory.data, len)
        IN  /\ reader' = r.self
            /\ memory' = [memory EXCEPT !.data = r.buf]
            /\ op' = [name |-> "ensure_capacity", ok |-> TRUE, arg |-> len]
            /\ UNCHANGED <<src, logical, poolVars, mkvVars, writerVars>>

NextBuf ==
    \/ BufConsume
    \/ BufSeek
    \/ BufFill
    \/ BufEnsureAdditional
    \/ BufEnsureCapacity

SpecBuf == InitBuf /\ [][NextBuf]_vars

(***************************************************************************)
(* C1: for a seekable source, after any sequence of consume, seek(Current) *)
(* and fill_buf calls, data() is the run of source bytes that starts at    *)
(* the reader's logical absolute position (the start offset, plus the      *)
(* consumes clamped to the available bytes, plus the relative seeks that   *)
(* succeeded), and that position is buf_pos + pos.                         *)
(***************************************************************************)
BufferedReaderPrefix ==
    reader.kind = "Seekable" =>
        /\ reader.buf_pos + reader.pos = logical
        /\ data(reader, memory.data) # <<>> =>
               logical + Len(data(reader, memory.data)) <= Len(src)
        /\ data(reader, memory.data) =
               SubSeq(src, logical + 1, logical + Len(data(reader, memory.data)))

\* a fill after the window was left behind: bytes from the middle of the
\* source stand at the front of the buffer, some of them consumed
BufferedReaderPrefixWitness ==
    /\ reader.kind = "Seekable"
    /\ op.name = "consume" /\ op.arg > 0
    /\ reader.buf_pos > 0
    /\ reader.pos > 0
    /\ reader.end > reader.pos

(***************************************************************************)
(* C2: in every reachable state of the reader, after any sequence of       *)
(* consume, seek, ensure_additional, ensure_capacity and fill_buf on the   *)
(* same backing vector, 0 <= pos <= end <= buf.len().                      *)
(***************************************************************************)
ReaderIndicesOrdered ==
    /\ 0 <= reader.pos
    /\ reader.pos <= reader.end
    /\ reader.end <= Len(memory.data)

\* a consume that asked for more than was available, in a grown buffer
ReaderIndicesOrderedWitness ==
    /\ op.name = "consume"
    /\ op.arg > 1
    /\ reader.pos = reader.end
    /\ reader.end > 0
    /\ reader.index > reader.buf_pos + reader.pos

(***************************************************************************)
(* SpecPool: the threads of Threads share one MemoryPool; its alloc        *)
(* and try_alloc take the write lock and call MemoryPoolImpl under it; a   *)
(* thread that has called and not yet got the lock is at "alloc" or        *)
(* "try_alloc", a thread inside recv() is at "alloc_recv" and still holds  *)
(* the lock.  Dropping a Memory sends its vector on the channel without    *)
(* the lock.                                                               *)
(***************************************************************************)
InitPool ==
    /\ pool = <<>>
    /\ chan = <<>>
    /\ alloc_count = 0
    /\ \E m \in {None} \cup {Some(n) : n \in 0..MaxAllocs} :
          config = [max_capacity |-> m, default_memory_capacity |-> 1]
    /\ lock = None
    /\ pc = [t \in Threads |-> "idle"]
    /\ req = [t \in Threads |-> 0]
    /\ held = [t \in Threads |-> {}]
    /\ dropped = None
    /\ refs = NoRefs
    /\ op = [name |-> "new"]
    /\ ReaderUnused
    /\ MkvUnused
    /\ WriterUnused

\* the first vector of the free list, in its order, that is long enough
FirstFit(free, size) ==
    LET fits == {i \in 1..Len(free) : size <= Len(free[i].data)}
    IN  IF fits = {} THEN None
        ELSE Some(free[CHOOSE i \in fits : \A j \in fits : i <= j])

\* what an alloc or try_alloc body did, for the properties
AllocOp(name, t, size, r) ==
    [name |-> name, size |-> size, res |-> r.mem,
     count_before |-> alloc_count, count_after |-> r.alloc_count,
     free_before |-> [i \in 1..Len(pool \o chan) |-> (pool \o chan)[i].id],
     first_fit |-> FirstFit(pool \o chan, size),
     fits_before |-> {m.id : m \in {(pool \o chan)[i] : i \in
                         {j \in 1..Len(pool \o chan) :
                             size <= Len((pool \o chan)[j].data)}}},
     held_before |-> Cardinality(Outstanding),
     dropped |-> dropped]

PoolCallTryAlloc(t) ==
    \E size \in 0..MaxSize :
        /\ pc[t] = "idle"
        /\ pc' = [pc EXCEPT ![t] = "try_alloc"]
        /\ req' = [req EXCEPT ![t] = size]
        /\ op' = [name |-> "call"]
        /\ UNCHANGED <<pool, chan, alloc_count, config, lock, held, dropped,
                       refs, readerVars, mkvVars, writerVars>>

PoolTryAlloc(t) ==
    LET r == try_alloc(PoolState, config, req[t])
    IN  /\ pc[t] = "try_alloc"
        /\ lock = None
        /\ r.alloc_count <= MaxAllocs
        /\ pool' = r.pool
        /\ chan' = r.chan
        /\ alloc_count' = r.alloc_count
        /\ held' = IF r.mem = None THEN held
                   ELSE [held EXCEPT ![t] = held[t] \cup {r.mem[1]}]
        /\ pc' = [pc EXCEPT ![t] = "idle"]
        /\ req' = [req EXCEPT ![t] = 0]
        /\ dropped' = None
        /\ op' = AllocOp("try_alloc", t, req[t], r)
        /\ UNCHANGED <<config, refs, lock, readerVars, mkvVars, writerVars>>

PoolCallAlloc(t) ==
    \E size \in 0..MaxSize :
        /\ pc[t] = "idle"
        /\ pc' = [pc EXCEPT ![t] = "alloc"]
        /\ req' = [req EXCEPT ![t] = size]
        /\ op' = [name |-> "call"]
        /\ UNCHANGED <<pool, chan, alloc_count, config, lock, held, dropped,
                       refs, readerVars, mkvVars, writerVars>>

PoolAlloc(t) ==
    LET r == try_alloc(PoolState, config, req[t])
    IN  /\ pc[t] = "alloc"
        /\ lock = None
        /\ r.alloc_count <= MaxAllocs
        /\ pool' = r.pool
        /\ chan' = r.chan
        /\ alloc_count' = r.alloc_count
        /\ held' = IF r.mem = None THEN held
                   ELSE [held EXCEPT ![t] = held[t] \cup {r.mem[1]}]
        /\ pc' = [pc EXCEPT ![t] = IF r.mem = None THEN "alloc_recv" ELSE "idle"]
        /\ lock' = IF r.mem = None THEN Some(t) ELSE None
        /\ req' = IF r.mem = None THEN req ELSE [req EXCEPT ![t] = 0]
        /\ dropped' = None
        /\ op' = AllocOp("alloc", t, req[t], r)
        /\ UNCHANGED <<config, refs, readerVars, mkvVars, writerVars>>

PoolAllocRecv(t) ==
    LET r == alloc_after_recv(PoolState, config, req[t])
    IN  /\ pc[t] = "alloc_recv"
        /\ chan # <<>>
        /\ pool' = r.pool
        /\ chan' = r.chan
        /\ alloc_count' = r.alloc_count
        /\ held' = [held EXCEPT ![t] = held[t] \cup {r.mem[1]}]
        /\ pc' = [pc EXCEPT ![t] = "idle"]
        /\ lock' = None
        /\ req' = [req EXCEPT ![t] = 0]
        /\ dropped' = None
        /\ op' = AllocOp("alloc", t, req[t], r) @@ [woken |-> t]
        /\ UNCHANGED <<config, refs, readerVars, mkvVars, writerVars>>

\* Drop for Memory: the vector goes onto the channel
PoolDrop(t) ==
    \E m \in held[t] :
        /\ pc[t] = "idle"
        /\ refs[m.id] = 0
        /\ held' = [held EXCEPT ![t] = held[t] \ {m}]
        /\ chan' = Append(chan, m)
        /\ dropped' = Some(m)
        /\ op' = [name |-> "drop", mem |-> m]
        /\ UNCHANGED <<pool, alloc_count, config, refs, lock, pc, req, readerVars, mkvVars, writerVars>>

NextPool ==
    \/ \E t \in Threads : PoolCallTryAlloc(t)
    \/ \E t \in Threads : PoolTryAlloc(t)
    \/ \E t \in Threads : PoolCallAlloc(t)
    \/ \E t \in Threads : PoolAlloc(t)
    \/ \E t \in Threads : PoolAllocRecv(t)
    \/ \E t \in Threads : PoolDrop(t)

SpecPool == InitPool /\ [][NextPool]_vars

(***************************************************************************)
(* SpecPoolShared: the threads call alloc, and realize spans with the      *)
(* Memory values they hold.  Span::realize_with_memory moves the Memory    *)
(* into an Arc and gives every non-realized fragment a clone of it; the    *)
(* Memory is dropped, and its vector sent to the pool, when the last clone *)
(* goes.  A vector whose Memory lives in an Arc stays in held, and refs    *)
(* counts its clones.                                                      *)
(***************************************************************************)
\* realize_with_memory(m) on a span of k non-realized fragments
PoolRealize(t) ==
    \E m \in held[t], k \in 0..MaxRefs :
        /\ pc[t] = "idle"
        /\ refs[m.id] = 0
        /\ refs' = [refs EXCEPT ![m.id] = k]
        /\ held' = IF k = 0 THEN [held EXCEPT ![t] = held[t] \ {m}] ELSE held
        /\ chan' = IF k = 0 THEN Append(chan, m) ELSE chan
        /\ dropped' = IF k = 0 THEN Some(m) ELSE dropped
        /\ op' = [name |-> "realize", mem |-> m, fragments |-> k]
        /\ UNCHANGED <<pool, alloc_count, config, lock, pc, req, readerVars, mkvVars, writerVars>>

\* a realized fragment is dropped: the last one drops the Memory
PoolDropSpan(t) ==
    \E m \in held[t] :
        /\ pc[t] = "idle"
        /\ refs[m.id] > 0
        /\ refs' = [refs EXCEPT ![m.id] = refs[m.id] - 1]
        /\ held' = IF refs[m.id] = 1 THEN [held EXCEPT ![t] = held[t] \ {m}] ELSE held
        /\ chan' = IF refs[m.id] = 1 THEN Append(chan, m) ELSE chan
        /\ dropped' = IF refs[m.id] = 1 THEN Some(m) ELSE dropped
        /\ op' = [name |-> "drop_span", mem |-> m, last |-> refs[m.id] = 1]
        /\ UNCHANGED <<pool, alloc_count, config, lock, pc, req, readerVars, mkvVars, writerVars>>

NextPoolShared ==
    \/ \E t \in Threads : PoolCallAlloc(t)
    \/ \E t \in Threads : PoolAlloc(t)
    \/ \E t \in Threads : PoolAllocRecv(t)
    \/ \E t \in Threads : PoolDrop(t)
    \/ \E t \in Threads : PoolRealize(t)
    \/ \E t \in Threads : PoolDropSpan(t)

\* the pool is not capped, or capped at one vector for the two threads
InitPoolShared == InitPool /\ config.max_capacity \in {None, Some(1)}

SpecPoolShared == InitPoolShared /\ [][NextPoolShared]_vars

(***************************************************************************)
(* SpecPoolFair: the threads call alloc on a capped pool and drop what     *)
(* they hold.  recv() returns once the channel holds a vector: a thread    *)
(* waiting in it is woken.                                                 *)
(***************************************************************************)
InitPoolCapped == InitPool /\ config.max_capacity # None

NextPoolFair ==
    \/ \E t \in Threads : PoolCallAlloc(t)
    \/ \E t \in Threads : PoolAlloc(t)
    \/ \E t \in Threads : PoolAllocRecv(t)
    \/ \E t \in Threads : PoolDrop(t)

SpecPoolFair ==
    /\ InitPoolCapped
    /\ [][NextPoolFair]_vars
    /\ \A t \in Threads : WF_vars(PoolAllocRecv(t))

(***************************************************************************)
(* C3: with max_capacity = Some(M), the number of buffers held by callers  *)
(* never exceeds M, and try_alloc answers None when M buffers are          *)
(* outstanding and none has been returned.                                 *)
(***************************************************************************)
PoolHeldWithinCap ==
    config.max_capacity # None =>
        /\ Cardinality(Outstanding) <= config.max_capacity[1]
        /\ (/\ op.name = "try_alloc"
            /\ op.held_before = config.max_capacity[1]
            /\ op.free_before = <<>>) => op.res = None

PoolHeldWithinCapWitness ==
    /\ config.max_capacity # None
    /\ config.max_capacity[1] >= 1
    /\ op.name = "try_alloc"
    /\ op.res = None
    /\ Cardinality(Outstanding) = config.max_capacity[1]

(***************************************************************************)
(* C4: every buffer alloc(size) or a successful try_alloc(size) returns    *)
(* has length >= size, whatever the configuration and the allocations and  *)
(* drops before it.                                                        *)
(***************************************************************************)
AllocLongEnough ==
    (op.name \in {"alloc", "try_alloc"} /\ op.res # None) =>
        Len(op.res[1].data) >= op.size

\* a returned buffer of a capped pool, too short for the request, is grown
AllocLongEnoughWitness ==
    /\ config.max_capacity # None
    /\ op.name \in {"alloc", "try_alloc"}
    /\ op.res # None
    /\ op.free_before # <<>>
    /\ op.first_fit = None
    /\ op.count_after = op.count_before

TryAllocNeverBlocks ==
    \A t \in Threads : pc[t] = "try_alloc" => lock = None

(***************************************************************************)
(* SpecMkv: one DemuxerContext (src/mediabox/src/format.rs) over a         *)
(* seekable Matroska file, used as test.rs uses it: read_headers once,     *)
(* then read_packet until it answers None.  The caller keeps at most       *)
(* MaxHeld packets and drops them in any order between its calls.          *)
(*                                                                         *)
(* The files.  Elem(id, body) is an element with a one-byte length.        *)
(***************************************************************************)
Elem(id, body) == id \o <<128 + Len(body)>> \o body

\* the EBML header with DocTypeVersion = 1
FileHeader == Elem(<<26, 69, 223, 163>>, Elem(<<66, 135>>, <<1>>))
\* an element no state of the demuxer knows (Void)
FileVoid == Elem(<<236>>, <<0>>)
\* the Segment and the Cluster headers, with the one-byte length 0xFF
FileSegment == <<24, 83, 128, 103, 255>>
FileCluster == <<31, 67, 182, 117, 255>>
\* Info with TimestampScale = 2000
FileInfo == Elem(<<21, 73, 169, 102>>, Elem(<<42, 215, 177>>, <<7, 208>>))
\* TrackEntry: TrackNumber, TrackType
FileTrackEntry(number, ty) ==
    Elem(<<174>>, Elem(<<215>>, <<number>>) \o Elem(<<131>>, <<ty>>))
\* Tracks: track 1 is video; track 2 has a type convert_track refuses
FileTracks == Elem(<<22, 84, 174, 107>>, FileTrackEntry(1, 1) \o FileTrackEntry(2, 3))
\* Timestamp of the cluster
FileTimestamp(ts) == Elem(<<231>>, <<ts>>)
\* SimpleBlock / Block body: track number, timestamp, flags, payload
FileBlockBody(track, ts, flags, payload) == <<128 + track, 0, ts, flags>> \o payload
FileSimpleBlock(track, ts, flags, payload) ==
    Elem(<<163>>, FileBlockBody(track, ts, flags, payload))
FileBlockGroup(track, ts, payload) ==
    Elem(<<160>>, Elem(<<161>>, FileBlockBody(track, ts, 0, payload)))
FileCues == Elem(<<28, 83, 187, 107>>, <<>>)

\* Info before Tracks; simple blocks only
FileInfoFirst ==
    FileHeader \o FileVoid \o FileSegment \o FileInfo \o FileTracks
    \o FileCluster \o FileTimestamp(5)
    \o FileSimpleBlock(1, 1, 128, <<170, 187>>)
    \o FileSimpleBlock(2, 2, 0, <<204>>)
    \o FileVoid
    \o FileSimpleBlock(1, 3, 0, <<221>>)
    \o FileSimpleBlock(1, 4, 0, <<238>>)
    \o FileCues

\* Tracks before Info; a BlockGroup between two simple blocks
FileTracksFirst ==
    FileHeader \o FileSegment \o FileTracks \o FileVoid \o FileInfo
    \o FileCluster \o FileTimestamp(5)
    \o FileSimpleBlock(1, 1, 128, <<170>>)
    \o FileBlockGroup(1, 2, <<187>>)
    \o FileSimpleBlock(1, 3, 0, <<204, 221>>)

\* the Tracks element twice before Info; one simple block
FileTracksTwice ==
    FileHeader \o FileSegment \o FileTracks \o FileTracks \o FileInfo
    \o FileCluster \o FileTimestamp(5)
    \o FileSimpleBlock(1, 1, 128, <<170>>)

MkvFiles == {FileInfoFirst, FileTracksFirst, FileTracksTwice}

\* new_memory[..pkt_len].copy_from_slice(bytes)
copy_from_slice(buf, bytes) ==
    [i \in 1..Len(buf) |-> IF i <= Len(bytes) THEN bytes[i] ELSE buf[i]]

borrowed_packet(pkt, mem, buf, offset) ==
    [pkt EXCEPT !.buffer = [memory |-> buf, start |-> offset, len |-> Len(pkt.buffer)]]

\* lines 118-127 of DemuxerContext::read_packet: the packet the caller
\* gets owns new_memory, which holds a copy of the payload
owned_packet(pkt, mem, buf, offset) ==
    [pkt EXCEPT !.buffer =
        [memory |-> [mem EXCEPT !.data = copy_from_slice(mem.data, pkt.buffer)],
         start |-> 0, len |-> Len(pkt.buffer)]]

\* DemuxerContext::open_with_pool: the pool, after memory = pool.alloc(0);
\* caps are the values of max_capacity the pool may have
MkvOpen(caps) ==
    /\ src \in MkvFiles
    /\ reader = NewReader("Seekable")
    /\ logical = 0
    /\ \E c \in {1, MaxCapacity}, cap \in caps :
          LET cfg == [max_capacity |-> cap, default_memory_capacity |-> c]
              a == try_alloc([pool |-> <<>>, chan |-> <<>>, alloc_count |-> 0], cfg, 0)
          IN  /\ config = cfg
              /\ memory = a.mem[1]
              /\ pool = a.pool
              /\ chan = a.chan
              /\ alloc_count = a.alloc_count
    /\ lock = None
    /\ pc = [t \in Threads |-> "idle"]
    /\ req = [t \in Threads |-> 0]
    /\ held = [t \in Threads |-> {}]
    /\ dropped = None
    /\ refs = NoRefs
    /\ op = [name |-> "open_with_pool"]
    /\ MkvUnused
    /\ WriterUnused

InitMkv == MkvOpen({None})

\* Dispatch with EndOfStream of read_packet taken for an error
Dispatch_end_of_stream_fails(call, kind) ==
    IF kind = "NeedMore" THEN "fill"
    ELSE IF kind = "Seek" THEN "seek"
    ELSE "failed"

\* what the context does with an answer that is not Ok
Dispatch(call, kind) ==
    IF kind = "NeedMore" THEN "fill"
    ELSE IF kind = "Seek" THEN "seek"
    ELSE IF kind = "EndOfStream" /\ call = "read_packet" THEN "end"
    ELSE "failed"

\* ghost, for the trail: the id of the element of the file at offset at
ElementAt(at) == ebml_element_header(Drop(src, at)).val.id

\* ghost: an element the demuxer dealt with, from offset start to offset end
Parsed(at, amt) ==
    [id |-> ElementAt(at), how |-> "parsed", start |-> at, end |-> at + amt]
Skipped(at, amt) ==
    [id |-> ElementAt(at), how |-> "skipped", start |-> at, end |-> at + amt]

MkvCallReadHeaders ==
    /\ ctx.pc = "idle"
    /\ ctx.movie = None
    /\ ctx' = [ctx EXCEPT !.pc = "demux", !.call = "read_headers"]
    /\ op' = [name |-> "call_read_headers"]
    /\ UNCHANGED <<readerVars, poolVars, demuxer, packets, trail, emitted>>
    /\ UNCHANGED writerVars

\* one turn of the loop of Demuxer2::read_headers, and what the context
\* does with its answer up to the next call of the demuxer
MkvReadHeaders ==
    LET input == data(reader, memory.data)
        r == read_headers_internal(demuxer, input)
        amt == slice_dist(input, r.res.rest)
        at == reader.buf_pos + reader.pos
    IN  /\ ctx.pc = "demux"
        /\ ctx.call = "read_headers"
        /\ demuxer' = r.self
        /\ IF r.res.kind = "ok"
           THEN /\ reader' = consume(reader, amt)
                /\ trail' = Append(trail, Parsed(at, amt))
                /\ ctx' = IF r.self.state.name = "ParseClusters"
                          THEN [ctx EXCEPT !.pc = "idle", !.call = "none",
                                           !.res = [kind |-> "ok", arg |-> 0],
                                           !.movie = Some(r.self.movie)]
                          ELSE [ctx EXCEPT !.res = [kind |-> "ok", arg |-> 0]]
           ELSE /\ UNCHANGED <<reader, trail>>
                /\ ctx' = [ctx EXCEPT !.pc = Dispatch(ctx.call, r.res.kind),
                                      !.res = [kind |-> r.res.kind, arg |-> r.res.arg]]
        /\ op' = [name |-> "read_headers"]
        /\ UNCHANGED <<src, memory, logical, poolVars, packets, emitted>>
        /\ UNCHANGED writerVars

MkvCallReadPacket ==
    /\ ctx.pc \in {"idle", "end"}
    /\ ctx.nones < MaxNones
    /\ ctx.movie # None
    /\ Cardinality(packets) < MaxHeld
    /\ ctx' = [ctx EXCEPT !.pc = "demux", !.call = "read_packet"]
    /\ op' = [name |-> "call_read_packet"]
    /\ UNCHANGED <<readerVars, poolVars, demuxer, packets, trail, emitted>>
    /\ UNCHANGED writerVars

\* one turn of the loop of Demuxer2::read_packet; a packet goes through
\* lines 117-130 of DemuxerContext::read_packet to the caller.  When
\* try_alloc has no vector for the packet, pool.alloc waits in recv(): the
\* context is at "recv", and only the drop of a Memory could wake it
MkvReadPacket ==
    LET input == data(reader, memory.data)
        r == read_packet_internal(demuxer, input)
        amt == slice_dist(input, r.res.rest)
        at == reader.buf_pos + reader.pos
        pkt == r.res.val[1]
        a == try_alloc(PoolState, config, Len(pkt.buffer))
        payload == SubSeq(src, at + amt - Len(pkt.buffer) + 1, at + amt)
    IN  /\ ctx.pc = "demux"
        /\ ctx.call = "read_packet"
        /\ demuxer' = r.self
        /\ IF r.res.kind = "ok"
           THEN /\ reader' = consume(reader, amt)
                /\ trail' = Append(trail, Parsed(at, amt))
                /\ IF r.res.val = None
                   THEN /\ ctx' = [ctx EXCEPT !.res = [kind |-> "ok", arg |-> 0]]
                        /\ UNCHANGED <<pool, chan, alloc_count, packets, emitted>>
                   ELSE IF a.mem = None
                   THEN \* pool.alloc waits in recv() for a vector
                        /\ pool' = a.pool
                        /\ chan' = a.chan
                        /\ alloc_count' = a.alloc_count
                        /\ ctx' = [ctx EXCEPT !.pc = "recv",
                                              !.res = [kind |-> "ok", arg |-> 0]]
                        /\ UNCHANGED <<packets, emitted>>
                   ELSE /\ pool' = a.pool
                        /\ chan' = a.chan
                        /\ alloc_count' = a.alloc_count
                        /\ packets' = packets \cup
                               {[pkt |-> owned_packet(pkt, a.mem[1], memory,
                                                      reader.pos + amt - Len(pkt.buffer)),
                                 at |-> at, payload |-> payload]}
                        /\ emitted' = Append(emitted,
                               [at |-> at, track |-> pkt.track.id, payload |-> payload])
                        /\ ctx' = [ctx EXCEPT !.pc = "idle", !.call = "none",
                                              !.res = [kind |-> "ok", arg |-> 0]]
           ELSE /\ UNCHANGED <<reader, trail, pool, chan, alloc_count, packets, emitted>>
                /\ ctx' = [ctx EXCEPT !.pc = Dispatch(ctx.call, r.res.kind),
                                      !.res = [kind |-> r.res.kind, arg |-> r.res.arg],
                                      !.nones = IF Dispatch(ctx.call, r.res.kind) = "end"
                                                THEN @ + 1 ELSE @]
        /\ op' = [name |-> "read_packet"]
        /\ UNCHANGED <<src, memory, logical, config, lock, pc, req, held, dropped, refs>>
        /\ UNCHANGED writerVars

\* the reads of SpecMkv: everything that fits, or a short read of at most
\* MaxShortRead bytes
MkvFillSizes(self, buf, s) ==
    LET all == FillSizes(self, buf, s)
    IN  {n \in all : n <= MaxShortRead \/ (\A m \in all : n >= m)}

\* the NeedMore arm of both loops of the context: ensure_additional and
\* fill_buf; at the end of the file read_headers fails and read_packet
\* answers None
MkvFill ==
    LET e == ensure_additional(reader, memory.data, ctx.res.arg)
    IN  /\ ctx.pc = "fill"
        /\ \E n \in MkvFillSizes(e.self, e.buf, src) :
              LET f == fill_buf(e.self, e.buf, src, n)
              IN  /\ reader' = f.self
                  /\ memory' = [memory EXCEPT !.data = f.buf]
                  /\ ctx' = [ctx EXCEPT
                                !.pc = IF f.ok THEN "demux"
                                       ELSE IF ctx.call = "read_packet" THEN "end"
                                       ELSE "failed",
                                !.nones = IF ~f.ok /\ ctx.call = "read_packet"
                                          THEN @ + 1 ELSE @]
        /\ op' = [name |-> "fill"]
        /\ UNCHANGED <<src, logical, poolVars, demuxer, packets, trail, emitted>>
        /\ UNCHANGED writerVars

\* the Seek arm of both loops of the context
MkvSeek ==
    LET s == seek(reader, ctx.res.arg)
    IN  /\ ctx.pc = "seek"
        /\ reader' = s.self
        /\ ctx' = [ctx EXCEPT !.pc = IF s.ok THEN "demux" ELSE "failed"]
        /\ trail' = IF s.ok
                    THEN Append(trail, Skipped(reader.buf_pos + reader.pos, ctx.res.arg))
                    ELSE trail
        /\ op' = [name |-> "seek"]
        /\ UNCHANGED <<src, memory, logical, poolVars, demuxer, packets, emitted>>
        /\ UNCHANGED writerVars

\* the caller drops a packet: Drop for Memory sends its vector to the pool
MkvDropPacket ==
    \E p \in packets :
        /\ ctx.pc \in {"idle", "end"}
        /\ packets' = packets \ {p}
        /\ chan' = Append(chan, p.pkt.buffer.memory)
        /\ op' = [name |-> "drop"]
        /\ UNCHANGED <<readerVars, pool, alloc_count, config, lock, pc, req, held,
                       dropped, refs, demuxer, ctx, trail, emitted>>
        /\ UNCHANGED writerVars

NextMkv ==
    \/ MkvCallReadHeaders
    \/ MkvReadHeaders
    \/ MkvCallReadPacket
    \/ MkvReadPacket
    \/ MkvFill
    \/ MkvSeek
    \/ MkvDropPacket

SpecMkv == InitMkv /\ [][NextMkv]_vars

(***************************************************************************)
(* SpecMkvFair: the context over a capped pool.  The thread inside a call  *)
(* keeps running: while the context stands in one of its loops, a turn of  *)
(* the demuxer or a NeedMore or Seek arm is taken.  MkvGoesOn is such a    *)
(* step, told by the operation it leaves in op; it leaves op as it is only *)
(* when a turn of the demuxer follows another one, and those steps move    *)
(* the position (LoopTurnsProgress).  The caller is free to call and to    *)
(* drop between the calls.  A context at "recv" has no step: its thread    *)
(* waits for a vector that only a drop could send.                         *)
(***************************************************************************)
InitMkvCapped == MkvOpen({Some(n) : n \in 1..MaxHeld})

LoopOps ==
    {[name |-> "read_headers"], [name |-> "read_packet"],
     [name |-> "fill"], [name |-> "seek"]}

MkvGoesOn ==
    /\ ctx.pc \in {"demux", "fill", "seek"}
    /\ op' \in LoopOps

SpecMkvFair == InitMkvCapped /\ [][NextMkv]_vars /\ WF_op(MkvGoesOn)

\* the same progress of the context over the uncapped pool of SpecMkv
SpecMkvUncappedFair == InitMkv /\ [][NextMkv]_vars /\ WF_op(MkvGoesOn)

(***************************************************************************)
(* C7: the header state of the demuxer only moves forward, one state at a  *)
(* time, LookingForEbmlHeader -> LookingForSegment ->                      *)
(* ParseUntilFirstCluster -> ParseClusters, and read_headers hands the     *)
(* Movie to its caller only when an Info element and a Tracks element of   *)
(* the Segment have both been parsed, whichever came first.                *)
(***************************************************************************)
StateRank(s) ==
    CASE s.name = "LookingForEbmlHeader" -> 0
      [] s.name = "LookingForSegment" -> 1
      [] s.name = "ParseUntilFirstCluster" -> 2
      [] s.name = "ParseClusters" -> 3

ParsedAfterSegment(id) ==
    \E i, j \in 1..Len(trail) :
        /\ i < j
        /\ trail[i].id = SEGMENT /\ trail[i].how = "parsed"
        /\ trail[j].id = id /\ trail[j].how = "parsed"

HeaderStateForward ==
    /\ [][/\ StateRank(demuxer'.state) \in
                {StateRank(demuxer.state), StateRank(demuxer.state) + 1}
          /\ demuxer.state.tracks /\ demuxer'.state.name = "ParseUntilFirstCluster"
                => demuxer'.state.tracks
          /\ demuxer.state.info /\ demuxer'.state.name = "ParseUntilFirstCluster"
                => demuxer'.state.info]_vars
    /\ [](ctx.movie # None =>
             /\ demuxer.state.name = "ParseClusters"
             /\ ParsedAfterSegment(INFO)
             /\ ParsedAfterSegment(TRACKS))

\* the Movie has been returned for a file whose Tracks precede its Info
HeaderStateForwardWitness ==
    /\ ctx.movie # None
    /\ ctx.movie[1] # <<>>
    /\ \E i, j \in 1..Len(trail) :
          i < j /\ trail[i].id = TRACKS /\ trail[j].id = INFO

(***************************************************************************)
(* C8: when a turn of read_headers or read_packet answers NeedMore or      *)
(* Seek, that turn has consumed nothing and has left the demuxer (state,   *)
(* tracks, timebase, current_cluster_ts) as it was; the reader then stands *)
(* at the end of the last element that was dealt with, and what has been   *)
(* consumed is exactly the parsed elements.  No element is parsed twice,   *)
(* so that no track and no packet is duplicated by the retries.            *)
(***************************************************************************)
RECURSIVE ParsedBytes(_)
ParsedBytes(tr) ==
    IF tr = <<>> THEN 0
    ELSE (IF Head(tr).how = "parsed" THEN Head(tr).end - Head(tr).start ELSE 0)
         + ParsedBytes(Tail(tr))

LastEnd == IF trail = <<>> THEN 0 ELSE trail[Len(trail)].end

FailedStepLeavesState ==
    /\ [][(ctx.pc = "demux" /\ ctx'.pc \in {"fill", "seek"}) =>
              /\ demuxer' = demuxer
              /\ reader' = reader
              /\ trail' = trail
              /\ emitted' = emitted]_vars
    /\ [](/\ ctx.pc \in {"fill", "seek"} => reader.buf_pos + reader.pos = LastEnd
          /\ reader.index = ParsedBytes(trail)
          /\ \A i, j \in 1..Len(trail) : i < j => trail[i].end <= trail[j].start
          /\ \A i, j \in 1..Len(emitted) : i < j => emitted[i].at < emitted[j].at
          /\ \A e \in {emitted[i] : i \in 1..Len(emitted)} :
                \E i \in 1..Len(trail) : trail[i].start = e.at /\ trail[i].how = "parsed")

\* NeedMore in the middle of the clusters: a packet has been returned, an
\* element has been skipped by a seek, and the next element is buffered in
\* part
FailedStepLeavesStateWitness ==
    /\ ctx.pc = "fill"
    /\ ctx.call = "read_packet"
    /\ emitted # <<>>
    /\ reader.end > reader.pos
    /\ reader.pos > 0
    /\ \E i \in 1..Len(trail) : trail[i].how = "skipped" /\ trail[i].id # SEGMENT
                                /\ trail[i].start > emitted[1].at

(***************************************************************************)
(* C9 as stated: the packets successive read_packet calls return are, in   *)
(* order and without repetition, the blocks of the container (the          *)
(* SimpleBlocks, and the Blocks of the BlockGroups) that belong to tracks  *)
(* of the Movie: at any time a prefix of them, and all of them when        *)
(* read_packet has answered None.                                          *)
(***************************************************************************)
\* the blocks of a file from offset at on, in order: [at, track, payload]
RECURSIVE ContainerBlocks(_, _)
ContainerBlocks(input, at) ==
    LET h == ebml_element_header(input)
        hl == slice_dist(input, h.rest)
        len == h.val.len.v
        blk == read_simple_block(Take(h.rest, len))
    IN  IF input = <<>> \/ h.kind # "ok" THEN <<>>
        ELSE IF h.val.id \in {SEGMENT, CLUSTER, BLOCK_GROUP}
        THEN ContainerBlocks(h.rest, at + hl)
        ELSE IF len > Len(h.rest) THEN <<>>
        ELSE (IF h.val.id \in {SIMPLE_BLOCK, BLOCK} /\ blk.kind = "ok"
              THEN <<[at |-> at, track |-> blk.val.track_number,
                      payload |-> blk.val.buffer]>>
              ELSE <<>>)
             \o ContainerBlocks(Drop(h.rest, len), at + hl + len)

SelectTracks(blocks, movie) ==
    SelectSeq(blocks, LAMBDA b : \E i \in 1..Len(movie) : movie[i].id = b.track)

PacketsAreContainerBlocks ==
    ctx.movie # None =>
        LET blocks == SelectTracks(ContainerBlocks(src, 0), ctx.movie[1])
            same(e, b) == e.track = b.track /\ e.payload = b.payload
        IN  /\ Len(emitted) <= Len(blocks)
            /\ \A i \in 1..Len(emitted) : same(emitted[i], blocks[i])
            /\ ctx.pc = "end" => Len(emitted) = Len(blocks)

(***************************************************************************)
(* C10: the bytes of a packet the caller holds are the payload of its      *)
(* block in the file, whatever read_packet calls, fills, compactions and   *)
(* seeks have happened since: its storage is not the read buffer, not the  *)
(* storage of another held packet, and not free in the pool.               *)
(***************************************************************************)
\* the bytes a span names now: a span whose vector is the read buffer's
\* sees what the read buffer holds now
PacketBytes(p) ==
    LET b == p.pkt.buffer
        storage == IF b.memory.id = memory.id THEN memory.data ELSE b.memory.data
    IN  SubSeq(storage, b.start + 1, b.start + b.len)

PacketBytesStable ==
    /\ \A p \in packets :
          /\ p.pkt.buffer.memory.id # memory.id
          /\ \A i \in 1..Len(pool \o chan) :
                (pool \o chan)[i].id # p.pkt.buffer.memory.id
          /\ p.pkt.buffer.start + p.pkt.buffer.len <= Len(p.pkt.buffer.memory.data)
          /\ PacketBytes(p) = p.payload
    /\ \A p, q \in packets :
          p # q => p.pkt.buffer.memory.id # q.pkt.buffer.memory.id

\* the first packet is still held after the third was returned in the
\* recycled vector of the second, the read buffer compacted past its block
PacketBytesStableWitness ==
    /\ op.name = "read_packet"
    /\ Cardinality(packets) = 2
    /\ alloc_count = 3
    /\ Len(emitted) = 3
    /\ \E p \in packets : p.at = emitted[1].at /\ reader.buf_pos > p.at

(***************************************************************************)
(* C11: read_packet returns None, never an error, when the demuxer meets   *)
(* a Cues element and when the source is at its end while the context      *)
(* fills the buffer; once read_packet has returned None, every later call  *)
(* returns None again and no packet is emitted.                            *)
(***************************************************************************)
AtCues ==
    LET h == ebml_element_header(data(reader, memory.data))
    IN  h.kind = "ok" /\ h.val.id = CUES

EndOfStreamIsNone ==
    [][/\ (ctx.call = "read_packet" /\ ctx.pc = "demux" /\ AtCues)
            => (ctx'.pc = "end" /\ ctx'.nones = ctx.nones + 1)
       /\ (ctx.call = "read_packet" /\ ctx.pc = "fill" /\ reader.inner >= Len(src))
            => (ctx'.pc = "end" /\ ctx'.nones = ctx.nones + 1)
       /\ ctx.nones > 0
            => /\ emitted' = emitted
               /\ packets' \subseteq packets
               /\ ctx'.pc \notin {"idle", "failed"}
               /\ ctx'.nones >= ctx.nones]_vars

EndOfStreamIsNoneWitness ==
    /\ ctx.nones = 2
    /\ ctx.pc = "end"
    /\ ctx.res.kind = "EndOfStream"
    /\ AtCues
    /\ Len(emitted) = 3

(***************************************************************************)
(* The EBML writers (ebml.rs 47-140 and 651-718).  A BufMut is the         *)
(* sequence of the bytes put into it; an operator named write answers the  *)
(* bytes it puts.  Values stay below 2^31.                                 *)
(***************************************************************************)
\* u64::ilog2, for v > 0
RECURSIVE ilog2(_)
ilog2(v) == IF v <= 1 THEN 0 ELSE 1 + ilog2(v \div 2)

\* the low n bytes of u64::to_be_bytes(v), most significant first
RECURSIVE to_be_bytes(_, _)
to_be_bytes(v, n) ==
    IF n = 0 THEN <<>> ELSE Append(to_be_bytes(v \div 256, n - 1), v % 256)

\* byte | bit, bit a power of two
BitOr(byte, bit) == IF (byte \div bit) % 2 = 1 THEN byte ELSE byte + bit

\* vint_bytes_required with the first row of its table one bit too wide
vint_bytes_required_first_row_wide(value) ==
    IF value = 0 THEN 1
    ELSE Bind(ilog2(value) + 1, LAMBDA bits :
             IF bits <= 8 THEN 1 ELSE IF bits <= 14 THEN 2
             ELSE IF bits <= 21 THEN 3 ELSE IF bits <= 28 THEN 4
             ELSE IF bits <= 35 THEN 5 ELSE IF bits <= 42 THEN 6
             ELSE IF bits <= 49 THEN 7 ELSE 8)

\* vint_bytes_required; above 56 bits the code is todo!(), which no value
\* below 2^31 reaches
vint_bytes_required(value) ==
    IF value = 0 THEN 1
    ELSE Bind(ilog2(value) + 1, LAMBDA bits :
             IF bits <= 7 THEN 1 ELSE IF bits <= 14 THEN 2
             ELSE IF bits <= 21 THEN 3 ELSE IF bits <= 28 THEN 4
             ELSE IF bits <= 35 THEN 5 ELSE IF bits <= 42 THEN 6
             ELSE IF bits <= 49 THEN 7 ELSE 8)

\* write_vint: value |= len << ((bytes_required - 1) * 8) sets one bit of
\* byte 8 - bytes_required of to_be_bytes, and the bytes from there are put
write_vint(value) ==
    Bind(vint_bytes_required(value), LAMBDA bytes_required :
        Bind(2 ^ (8 - bytes_required), LAMBDA len :
            Bind(to_be_bytes(value, 8), LAMBDA bytes :
                SubSeq([bytes EXCEPT ![9 - bytes_required] = BitOr(@, len)],
                       9 - bytes_required, 8))))

\* EbmlId::size and EbmlId::write (write_vid)
EbmlId_size(id) == (ilog2(id) + 7) \div 8
write_vid(id) == to_be_bytes(id, (ilog2(id) + 7) \div 8)

\* EbmlLength::size and EbmlLength::write
EbmlLength_size(length) ==
    IF length.known THEN vint_bytes_required(length.v) ELSE 1
EbmlLength_write(length) ==
    IF length.known THEN write_vint(length.v) ELSE <<255>>

\* write_uint_elem and write_int_elem: while value > 0, the low byte is put
\* and the value shifted right
RECURSIVE write_uint_elem(_)
write_uint_elem(value) ==
    IF value > 0 THEN <<value % 256>> \o write_uint_elem(value \div 256) ELSE <<>>
RECURSIVE write_int_elem(_)
write_int_elem(value) ==
    IF value > 0 THEN <<value % 256>> \o write_int_elem(value \div 256) ELSE <<>>

\* uint_element_bytes_required and int_element_bytes_required; the ilog2
\* of a negative i64 panics, and the model has no negative value
uint_element_bytes_required(value) ==
    IF value = 0 THEN 1 ELSE ilog2(value) \div 8
int_element_bytes_required(value) ==
    IF value = 0 THEN 1 ELSE ilog2(value) \div 8

\* the least number of bytes that hold v, one byte for zero
MinUIntBytes(v) == IF v = 0 THEN 1 ELSE ilog2(v) \div 8 + 1

\* EbmlValue, EbmlElement(id, value) and EbmlMasterElement(id, children)
EbmlValue_Int(v) == [ty |-> "Int", n |-> v]
EbmlValue_UInt(v) == [ty |-> "UInt", n |-> v]
EbmlValue_String(s) == [ty |-> "String", s |-> s]
EbmlValue_Binary(b) == [ty |-> "Binary", b |-> b]
EbmlValue_Children(el) == [ty |-> "Children", el |-> el]
EbmlElement(id, value) == [id |-> id, value |-> value]
EbmlMasterElement(id, children) == [id |-> id, children |-> children]

RECURSIVE EbmlValue_size(_)
RECURSIVE EbmlElement_full_size(_)
RECURSIVE children_size(_)
RECURSIVE EbmlValue_write(_)
RECURSIVE EbmlElement_write(_)
RECURSIVE children_write(_)

\* el.iter().map(|el| el.full_size()).sum()
children_size(el) ==
    IF el = <<>> THEN 0
    ELSE EbmlElement_full_size(Head(el)) + children_size(Tail(el))

EbmlValue_size(value) ==
    CASE value.ty = "Int" -> int_element_bytes_required(value.n)
      [] value.ty = "UInt" -> uint_element_bytes_required(value.n) + 1
      [] value.ty = "String" -> Len(value.s)
      [] value.ty = "Binary" -> Len(value.b)
      [] value.ty = "Children" -> children_size(value.el)

EbmlElement_size(self) == EbmlValue_size(self.value)

EbmlElement_full_size(self) ==
    Bind(EbmlElement_size(self), LAMBDA content_size :
        EbmlId_size(self.id) + EbmlLength_size(Known(content_size)) + content_size)

\* for el in el { el.write(buf) }
children_write(el) ==
    IF el = <<>> THEN <<>>
    ELSE EbmlElement_write(Head(el)) \o children_write(Tail(el))

EbmlValue_write(value) ==
    CASE value.ty = "Int" -> write_int_elem(value.n)
      [] value.ty = "UInt" -> write_uint_elem(value.n)
      [] value.ty = "String" -> value.s
      [] value.ty = "Binary" -> value.b
      [] value.ty = "Children" -> children_write(value.el)

EbmlElement_write(self) ==
    write_vid(self.id) \o EbmlLength_write(Known(EbmlElement_size(self)))
        \o EbmlValue_write(self.value)

EbmlMasterElement_size(self) == children_size(self.children)

EbmlMasterElement_full_size(self) ==
    Bind(EbmlMasterElement_size(self), LAMBDA content_size :
        EbmlId_size(self.id) + EbmlLength_size(Known(content_size)) + content_size)

EbmlMasterElement_write(self) ==
    write_vid(self.id) \o EbmlLength_write(Known(EbmlMasterElement_size(self)))
        \o children_write(self.children)

(***************************************************************************)
(* SpecEbml: the EBML writers and readers applied to inputs drawn from     *)
(* bounded sets.  ebml holds the input of the last application and what    *)
(* the code answered.                                                      *)
(***************************************************************************)
\* the values written as vints: 0 and the powers of two up to MaxVintBits
\* bits, with their predecessors (the ends of every row of the table)
VintValues ==
    {0} \cup {2 ^ k : k \in 0..MaxVintBits} \cup {2 ^ k - 1 : k \in 1..MaxVintBits}

\* a byte that follows the encoding in the input of a reader
EbmlTrailer == <<171>>

\* the widths of the lengths read: 1 << (7 * len) of ebml_len stays below 2^31
LenWidths == 1..4

\* an encoded length of width w: the marker bit, the payload bits of the
\* first byte, and w - 1 bytes equal to rest
LenInput(w, first, rest) == <<2 ^ (8 - w) + first>> \o [i \in 1..(w - 1) |-> rest]

\* the payload of the first byte is 0, 1 or all ones, the other bytes are
\* all 0 or all 255
LenInputs ==
    UNION {{LenInput(w, first, rest) :
               first \in {0, 1, 2 ^ (8 - w) - 1}, rest \in {0, 255}} :
           w \in LenWidths}

\* the payload bits of an encoded length are all ones
AllOnes(input) ==
    /\ input[1] = 2 ^ (9 - Len(input)) - 1
    /\ \A i \in 2..Len(input) : input[i] = 255

\* the lengths the muxer writes: Known(v) of at most four bytes, Unknown(1)
\* and Unknown(8)
WrittenLengths ==
    {Known(v) : v \in {x \in VintValues : x < 2 ^ 28}} \cup {Unknown(1), Unknown(8)}

\* the integers written as element values
IntValues == {0, 1, 255, 256, 65535, 65536}

LeafValues ==
    {EbmlValue_UInt(v) : v \in IntValues} \cup {EbmlValue_Int(v) : v \in IntValues}
        \cup {EbmlValue_String(s) : s \in {<<>>, <<109, 107, 118>>}}
        \cup {EbmlValue_Binary(b) : b \in {<<>>, <<1, 2>>}}

Leaves == {EbmlElement(id, v) : id \in {TRACK_NUMBER, TRACK_UID}, v \in LeafValues}

\* some leaves, as the children of elements
FewLeaves ==
    {EbmlElement(TRACK_NUMBER, EbmlValue_UInt(1)),
     EbmlElement(TRACK_UID, EbmlValue_UInt(0)),
     EbmlElement(CODEC_ID, EbmlValue_String(<<109, 107, 118>>))}

ChildLists ==
    {<<>>} \cup {<<a>> : a \in FewLeaves} \cup {<<a, b>> : a \in FewLeaves, b \in FewLeaves}

Elements ==
    Leaves \cup {EbmlElement(AUDIO, EbmlValue_Children(c)) : c \in ChildLists}
        \cup {EbmlElement(TRACK_ENTRY,
                  EbmlValue_Children(<<EbmlElement(AUDIO, EbmlValue_Children(c))>>)) :
              c \in ChildLists}

InitEbml ==
    /\ ebml = [op |-> "none"]
    /\ muxer = [current_cluster_pts |-> 0, current_cluster_len |-> 0]
    /\ mux = [pc |-> "idle"]
    /\ rt = [pc |-> "idle"]
    /\ rope = [op |-> "none"]
    /\ nal = [op |-> "none"]
    /\ probed = [op |-> "none"]
    /\ src = <<>>
    /\ reader = NewReader("Seekable")
    /\ memory = [id |-> 0, data |-> <<>>]
    /\ logical = 0
    /\ op = [name |-> "new"]
    /\ PoolUnused
    /\ MkvUnused

\* write_vint, and ebml_vint on what it wrote
EbmlWriteVint ==
    /\ \E v \in VintValues :
          ebml' = [op |-> "write_vint", v |-> v, bytes |-> write_vint(v),
                   read |-> ebml_vint(write_vint(v) \o EbmlTrailer)]
    /\ UNCHANGED <<readerVars, op, poolVars, mkvVars, muxer, mux, rt, pureVars>>

\* ebml_len on an encoded length
EbmlReadLen ==
    /\ \E input \in LenInputs :
          ebml' = [op |-> "ebml_len", input |-> input,
                   read |-> ebml_len(input \o EbmlTrailer)]
    /\ UNCHANGED <<readerVars, op, poolVars, mkvVars, muxer, mux, rt, pureVars>>

\* EbmlLength::write, and ebml_len on what it wrote
EbmlWriteLength ==
    /\ \E length \in WrittenLengths :
          ebml' = [op |-> "EbmlLength::write", length |-> length,
                   size |-> EbmlLength_size(length),
                   bytes |-> EbmlLength_write(length),
                   read |-> ebml_len(EbmlLength_write(length) \o EbmlTrailer)]
    /\ UNCHANGED <<readerVars, op, poolVars, mkvVars, muxer, mux, rt, pureVars>>

\* EbmlElement::write and full_size; header is the element header read
\* from what was written, content the bytes written after it
EbmlWriteElement ==
    /\ \E e \in Elements :
          ebml' = [op |-> "EbmlElement::write", element |-> e,
                   full_size |-> EbmlElement_full_size(e),
                   bytes |-> EbmlElement_write(e),
                   header |-> ebml_element_header(EbmlElement_write(e) \o EbmlTrailer),
                   content |-> EbmlValue_write(e.value)]
    /\ UNCHANGED <<readerVars, op, poolVars, mkvVars, muxer, mux, rt, pureVars>>

\* an element of value UInt(v) written, and ebml_uint on what was written
EbmlWriteUInt ==
    /\ \E v \in IntValues, id \in {TIMESTAMP, TRACK_UID} :
          LET e == EbmlElement(id, EbmlValue_UInt(v))
          IN  ebml' = [op |-> "write_uint_elem", v |-> v, id |-> id,
                       content |-> write_uint_elem(v),
                       bytes |-> EbmlElement_write(e),
                       read |-> ebml_uint(id, EbmlElement_write(e))]
    /\ UNCHANGED <<readerVars, op, poolVars, mkvVars, muxer, mux, rt, pureVars>>

\* EbmlMasterElement::write and full_size
EbmlWriteMaster ==
    /\ \E c \in ChildLists :
          LET e == EbmlMasterElement(TRACK_ENTRY, c)
          IN  ebml' = [op |-> "EbmlMasterElement::write", element |-> e,
                       full_size |-> EbmlMasterElement_full_size(e),
                       bytes |-> EbmlMasterElement_write(e),
                       header |-> ebml_element_header(
                                      EbmlMasterElement_write(e) \o EbmlTrailer),
                       content |-> children_write(c)]
    /\ UNCHANGED <<readerVars, op, poolVars, mkvVars, muxer, mux, rt, pureVars>>

NextEbml ==
    \/ EbmlWriteVint
    \/ EbmlReadLen
    \/ EbmlWriteLength
    \/ EbmlWriteElement
    \/ EbmlWriteUInt
    \/ EbmlWriteMaster

SpecEbml == InitEbml /\ [][NextEbml]_vars

(***************************************************************************)
(* The muxer (src/mediabox/src/format/mkv/mux.rs, format/mux.rs, span.rs). *)
(*                                                                         *)
(* A Span is the sequence of its fragments: Span::Many is flattened, a     *)
(* fragment is a range of the scratch memory that is not realized yet or   *)
(* bytes of its own.                                                       *)
(***************************************************************************)
NonRealizedMemory(start, end) ==
    [kind |-> "NonRealizedMemory", start |-> start, end |-> end, bytes |-> <<>>]
Single(bytes) == [kind |-> "Single", start |-> 0, end |-> 0, bytes |-> bytes]

\* Span::len by Span::visit: the visit panics on the first fragment that is
\* not realized ("span memory must be realized"); None is the panic
RECURSIVE Span_len(_)
Span_len(span) ==
    IF span = <<>> THEN Some(0)
    ELSE IF Head(span).kind = "NonRealizedMemory" THEN None
    ELSE Bind(Span_len(Tail(span)), LAMBDA n :
            IF n = None THEN None ELSE Some(Len(Head(span).bytes) + n[1]))

\* realize_with_memory and to_io_slice: the bytes of the span, its ranges
\* taken from the memory
RECURSIVE realized_bytes(_, _)
realized_bytes(span, buf) ==
    IF span = <<>> THEN <<>>
    ELSE (IF Head(span).kind = "NonRealizedMemory"
          THEN SubSeq(buf, Head(span).start + 1, Head(span).end)
          ELSE Head(span).bytes) \o realized_bytes(Tail(span), buf)

\* ScratchMemory::new
ScratchMemory(buf) == [buf |-> buf, pos |-> 0]

\* Result<Span, MuxerError> of a step of the muxer, with the scratch memory
\* it leaves; "panic" is a panic of the step
Wrote(scratch, span) == [kind |-> "ok", arg |-> 0, scratch |-> scratch, span |-> span]
Failed(kind, arg, scratch) == [kind |-> kind, arg |-> arg, scratch |-> scratch, span |-> <<>>]

\* ScratchMemory::write(len, func), func putting `bytes` into the slice of
\* len bytes: putting more than the slice holds panics, putting fewer
\* leaves what the memory held
ScratchMemory_write(self, len, bytes) ==
    IF self.pos + len > Len(self.buf)
    THEN Failed("NeedMore", self.pos + len - Len(self.buf), self)
    ELSE IF Len(bytes) > len THEN Failed("panic", 0, self)
    ELSE Wrote([buf |-> [i \in 1..Len(self.buf) |->
                            IF i > self.pos /\ i <= self.pos + Len(bytes)
                            THEN bytes[i - self.pos] ELSE self.buf[i]],
                pos |-> self.pos + len],
               <<NonRealizedMemory(self.pos, self.pos + len)>>)

\* `?`: the rest of the function runs on Ok only
Try(r, K(_)) == IF r.kind = "ok" THEN K(r) ELSE r

make_id_span(id, scratch) ==
    ScratchMemory_write(scratch, EbmlId_size(id), write_vid(id))

make_length_span(length, scratch) ==
    ScratchMemory_write(scratch, EbmlLength_size(length), EbmlLength_write(length))

\* make_element: the id, then Known(content.len()), then the content
make_element(id, scratch, content) ==
    Try(make_id_span(id, scratch), LAMBDA i :
        Bind(Span_len(content), LAMBDA n :
            IF n = None THEN Failed("panic", 0, i.scratch)
            ELSE Try(make_length_span(Known(n[1]), i.scratch), LAMBDA l :
                     Wrote(l.scratch, i.span \o l.span \o content))))

VIDEO == 224                            \* 0xe0
\* ids and names the muxer uses that its source tree does not hold
WRITING_APP == 19840                    \* 0x4d80
MUXING_APP == 22337                     \* 0x5741
PIXEL_WIDTH == 176                      \* 0xb0
PIXEL_HEIGHT == 186                     \* 0xba
FLAG_INTERLACED == 154                  \* 0x9a
NAME == <<109, 101, 100, 105, 97, 98, 111, 120>>    \* "mediabox"

\* CodecId: "Unknown", "H264", "Aac", "WebVtt", "Ass"
is_video(codec) == codec = "H264"
is_audio(codec) == codec = "Aac"
is_subtitle(codec) == codec \in {"WebVtt", "Ass"}

to_mkv_codec_id(id) ==
    CASE id = "H264" -> <<86, 95, 77, 80, 69, 71, 52, 47, 73, 83, 79, 47, 65, 86, 67>>
      [] id = "Aac" -> <<65, 95, 65, 65, 67>>
      [] id = "WebVtt" -> <<83, 95, 84, 69, 88, 84, 47, 87, 69, 66, 86, 84, 84>>
      [] id = "Ass" -> <<83, 95, 84, 69, 88, 84, 47, 65, 83, 83>>
      [] OTHER -> <<117, 110, 107, 110, 111, 119, 110>>

\* get_track_type: None is the panic "Unknown track type"
get_track_type(codec) ==
    IF is_video(codec) THEN Some(TRACK_TYPE_VIDEO)
    ELSE IF is_audio(codec) THEN Some(TRACK_TYPE_AUDIO)
    ELSE IF is_subtitle(codec) THEN Some(TRACK_TYPE_SUBTITLE)
    ELSE None

\* `as i16` of an i64
as_i16(d) == ((d + 32768) % 65536) - 32768

\* BufMut::put_i16: two's complement, most significant byte first
put_i16(time) == to_be_bytes(time % 65536, 2)

get_simple_block(packet, current_cluster_pts, scratch) ==
    LET track_number  == packet.track.id
        time          == as_i16(packet.time.pts - current_cluster_pts)
        size_required == vint_bytes_required(track_number) + 2 + 1
        flags         == IF packet.key THEN 128 ELSE 0
    IN  Try(ScratchMemory_write(scratch, size_required,
                write_vint(track_number) \o put_i16(time) \o <<flags>>),
            LAMBDA element_header :
                make_element(SIMPLE_BLOCK, element_header.scratch,
                             element_header.span \o packet.buffer))

\* the TrackEntry of get_tracks for one track whose codec has a track type
track_entry(track) ==
    LET codec_id == track.info.codec_id
        children ==
            << EbmlElement(TRACK_NUMBER, EbmlValue_UInt(track.id)),
               EbmlElement(TRACK_UID, EbmlValue_UInt(track.id)),
               EbmlElement(TRACK_TYPE, EbmlValue_UInt(get_track_type(codec_id)[1])),
               EbmlElement(CODEC_ID, EbmlValue_String(to_mkv_codec_id(codec_id))),
               EbmlElement(CODEC_PRIVATE, EbmlValue_Binary(track.info.codec_private)) >>
        video_children ==
            << EbmlElement(PIXEL_WIDTH, EbmlValue_UInt(track.info.width)),
               EbmlElement(PIXEL_HEIGHT, EbmlValue_UInt(track.info.height)),
               EbmlElement(FLAG_INTERLACED, EbmlValue_UInt(2)) >>
    IN  EbmlMasterElement(TRACK_ENTRY,
            IF is_video(codec_id)
            THEN Append(children, EbmlElement(VIDEO, EbmlValue_Children(video_children)))
            ELSE children)

\* the loop of get_tracks: one scratch write per track, the spans collected
RECURSIVE track_spans(_, _, _)
track_spans(tracks, scratch, spans) ==
    IF tracks = <<>> THEN Wrote(scratch, spans)
    ELSE IF get_track_type(Head(tracks).info.codec_id) = None
    THEN Failed("panic", 0, scratch)
    ELSE Try(ScratchMemory_write(scratch,
                 EbmlMasterElement_full_size(track_entry(Head(tracks))),
                 EbmlMasterElement_write(track_entry(Head(tracks)))),
             LAMBDA content :
                 track_spans(Tail(tracks), content.scratch, spans \o content.span))

get_tracks(movie, scratch) ==
    Try(track_spans(movie.tracks, scratch, <<>>), LAMBDA tracks :
        make_element(TRACKS, tracks.scratch, tracks.span))

\* MatroskaMuxer::default, the fields write reads
NewMuxer == [current_cluster_pts |-> 0, current_cluster_len |-> 0]

ebml_header_element ==
    EbmlMasterElement(EBML_HEADER,
        << EbmlElement(EBML_VERSION, EbmlValue_UInt(1)),
           EbmlElement(EBML_READ_VERSION, EbmlValue_UInt(1)),
           EbmlElement(EBML_DOC_MAX_ID_LENGTH, EbmlValue_UInt(4)),
           EbmlElement(EBML_DOC_MAX_SIZE_LENGTH, EbmlValue_UInt(8)),
           EbmlElement(EBML_DOC_TYPE, EbmlValue_String(<<109, 97, 116, 114, 111, 115, 107, 97>>)),
           EbmlElement(EBML_DOC_TYPE_VERSION, EbmlValue_UInt(1)) >>)

info_element ==
    EbmlMasterElement(INFO,
        << EbmlElement(WRITING_APP, EbmlValue_String(NAME)),
           EbmlElement(MUXING_APP, EbmlValue_String(NAME)) >>)

\* Muxer2::start of MatroskaMuxer
MatroskaMuxer_start(scratch, movie) ==
    LET total_size == EbmlMasterElement_full_size(ebml_header_element)
                      + EbmlId_size(SEGMENT) + EbmlLength_size(Unknown(8))
                      + EbmlMasterElement_full_size(info_element)
    IN  Try(ScratchMemory_write(scratch, total_size,
                EbmlMasterElement_write(ebml_header_element) \o write_vid(SEGMENT)
                \o EbmlLength_write(Unknown(8)) \o EbmlMasterElement_write(info_element)),
            LAMBDA span :
                Try(get_tracks(movie, span.scratch), LAMBDA tracks :
                    Wrote(tracks.scratch, span.span \o tracks.span)))

\* a step of the muxer that has a self to change: its answer and the muxer
Step(res, self) == [res |-> res, self |-> self]

write_cluster_block(self, scratch, packet) ==
    Bind(get_simple_block(packet, self.current_cluster_pts, scratch), LAMBDA block :
        IF block.kind # "ok" THEN Step(block, self)
        ELSE Step(block,
                  [self EXCEPT !.current_cluster_len =
                      IF self.current_cluster_len + 1 > 30 THEN 0
                      ELSE self.current_cluster_len + 1]))

write_cluster_header(self, scratch, packet) ==
    LET started      == [self EXCEPT !.current_cluster_pts = packet.time.pts]
        timecode     == EbmlElement(TIMESTAMP, EbmlValue_UInt(packet.time.pts))
        scratch_size == EbmlId_size(CLUSTER) + EbmlLength_size(Unknown(1))
                        + EbmlElement_full_size(timecode)
    IN  Bind(ScratchMemory_write(scratch, scratch_size,
                 write_vid(CLUSTER) \o EbmlLength_write(Unknown(1))
                 \o EbmlElement_write(timecode)),
             LAMBDA header :
                 IF header.kind # "ok" THEN Step(header, started)
                 ELSE Bind(write_cluster_block(started, header.scratch, packet),
                           LAMBDA block :
                               IF block.res.kind # "ok" THEN block
                               ELSE Step(Wrote(block.res.scratch,
                                               header.span \o block.res.span),
                                         block.self)))

\* Muxer2::write of MatroskaMuxer
MatroskaMuxer_write(self, scratch, packet) ==
    IF self.current_cluster_len = 0
    THEN write_cluster_header(self, scratch, packet)
    ELSE write_cluster_block(self, scratch, packet)

\* Muxer2::stop of MatroskaMuxer: todo!()
MatroskaMuxer_stop(self) == Step(Failed("panic", 0, ScratchMemory(<<>>)), self)

(***************************************************************************)
(* SpecMux: a SyncMuxerContext (format/mux.rs) over a MatroskaMuxer and an *)
(* uncapped pool.  mux is the context and its caller: pc (idle, start,     *)
(* write: inside the loop of that method; panic: the thread panicked),     *)
(* scratch_size, out (the bytes written to the file), calls, movie and     *)
(* packet (the arguments of the call running), sent (the packets of the    *)
(* write calls) and last (the muxer's last answer and the bytes of its     *)
(* span).  rt is the file read back by a MatroskaDemuxer.                  *)
(***************************************************************************)
MuxVideo ==
    [id |-> 1, info |-> [codec_id |-> "H264", codec_private |-> <<1>>,
                         width |-> 16, height |-> 0]]
MuxAudio ==
    [id |-> 2, info |-> [codec_id |-> "Aac", codec_private |-> <<>>,
                         width |-> 0, height |-> 0]]
MuxOther ==
    [id |-> 3, info |-> [codec_id |-> "Unknown", codec_private |-> <<>>,
                         width |-> 0, height |-> 0]]

Movies ==
    {[tracks |-> t] : t \in {<<>>, <<MuxVideo>>, <<MuxAudio>>,
                              <<MuxVideo, MuxAudio>>, <<MuxOther>>}}

MuxPackets ==
    {[time |-> [pts |-> pts], key |-> key, track |-> MuxVideo, buffer |-> <<Single(b)>>] :
        pts \in {0, 256, 40000}, key \in BOOLEAN, b \in {<<>>, <<222, 173>>}}

\* scratch_size of open_with_pool: 4096, or ScratchSize to make the
\* NeedMore arm run on every call
ScratchSizes == {ScratchSize, 4096}

NoAnswer == [call |-> "none", kind |-> "none", bytes |-> <<>>]

InitMux ==
    /\ muxer = NewMuxer
    /\ \E s \in ScratchSizes :
          mux = [pc |-> "idle", scratch_size |-> s, out |-> <<>>, calls |-> 0,
                 movie |-> [tracks |-> <<>>], packet |-> None, sent |-> <<>>,
                 last |-> NoAnswer]
    /\ rt = [pc |-> "idle"]
    /\ rope = [op |-> "none"]
    /\ nal = [op |-> "none"]
    /\ probed = [op |-> "none"]
    /\ ebml = [op |-> "none"]
    /\ pool = <<>>
    /\ chan = <<>>
    /\ alloc_count = 0
    /\ \E c \in {1, MaxCapacity} :
          config = [max_capacity |-> None, default_memory_capacity |-> c]
    /\ lock = None
    /\ pc = [t \in Threads |-> "idle"]
    /\ req = [t \in Threads |-> 0]
    /\ held = [t \in Threads |-> {}]
    /\ dropped = None
    /\ refs = NoRefs
    /\ ReaderUnused
    /\ op = [name |-> "open_with_pool"]
    /\ MkvUnused

muxFrame == <<readerVars, op, config, lock, pc, req, held, dropped, refs, mkvVars, ebml,
              pureVars>>

\* the caller calls SyncMuxerContext::start
MuxCallStart ==
    /\ mux.pc = "idle"
    /\ mux.calls < MaxCalls
    /\ \E movie \in Movies :
          mux' = [mux EXCEPT !.pc = "start", !.movie = movie, !.calls = @ + 1]
    /\ UNCHANGED <<muxFrame, pool, chan, alloc_count, muxer, rt>>

\* the caller calls SyncMuxerContext::write
MuxCallWrite ==
    /\ mux.pc = "idle"
    /\ mux.calls < MaxCalls
    /\ \E packet \in MuxPackets :
          mux' = [mux EXCEPT !.pc = "write", !.packet = Some(packet), !.calls = @ + 1,
                             !.sent = Append(@, packet)]
    /\ UNCHANGED <<muxFrame, pool, chan, alloc_count, muxer, rt>>

\* what both loops do with the muxer's answer r on the memory they
\* allocated; ok_arm is the context after the Ok arm
MuxTurn(call, a, r, ok_arm) ==
    /\ a.mem # None
    /\ pool' = a.pool
    /\ alloc_count' = a.alloc_count
    /\ chan' = Append(a.chan, [a.mem[1] EXCEPT !.data = r.scratch.buf])
    /\ mux' = IF r.kind = "ok" THEN ok_arm
              ELSE IF r.kind = "NeedMore"
              THEN [mux EXCEPT !.scratch_size = @ + r.arg,
                               !.last = [call |-> call, kind |-> "NeedMore", bytes |-> <<>>]]
              ELSE [mux EXCEPT !.pc = "panic",
                               !.last = [call |-> call, kind |-> r.kind, bytes |-> <<>>]]

\* one turn of the loop of SyncMuxerContext::start
MuxStart ==
    /\ mux.pc = "start"
    /\ Bind(try_alloc(PoolState, config, mux.scratch_size), LAMBDA a :
       Bind(MatroskaMuxer_start(ScratchMemory(a.mem[1].data), mux.movie), LAMBDA r :
         MuxTurn("start", a, r,
            [mux EXCEPT !.pc = "idle",
                        !.out = @ \o realized_bytes(r.span, r.scratch.buf),
                        !.last = [call |-> "start", kind |-> "ok",
                                  bytes |-> realized_bytes(r.span, r.scratch.buf)]])))
    /\ UNCHANGED <<muxFrame, muxer, rt>>

\* one turn of the loop of SyncMuxerContext::write; its Ok arm is todo!()
MuxWrite ==
    /\ mux.pc = "write"
    /\ Bind(try_alloc(PoolState, config, mux.scratch_size), LAMBDA a :
       Bind(MatroskaMuxer_write(muxer, ScratchMemory(a.mem[1].data), mux.packet[1]),
            LAMBDA r :
                /\ muxer' = r.self
                /\ MuxTurn("write", a, r.res,
                      [mux EXCEPT !.pc = "panic",
                                  !.last = [call |-> "write", kind |-> "ok",
                                            bytes |-> realized_bytes(r.res.span,
                                                                     r.res.scratch.buf)]])))
    /\ UNCHANGED <<muxFrame, rt>>

\* the caller calls Muxer2::stop on the muxer
MuxStop ==
    /\ mux.pc = "idle"
    /\ mux.calls < MaxCalls
    /\ Bind(MatroskaMuxer_stop(muxer), LAMBDA r :
          /\ muxer' = r.self
          /\ mux' = [mux EXCEPT !.pc = IF r.res.kind = "ok" THEN "idle" ELSE "panic",
                                !.calls = @ + 1,
                                !.last = [call |-> "stop", kind |-> r.res.kind,
                                          bytes |-> <<>>]])
    /\ UNCHANGED <<muxFrame, pool, chan, alloc_count, rt>>

\* the loop of DemuxerContext::read_headers over a file that is in the
\* buffer whole: NeedMore is the end of the file
RECURSIVE read_back_headers(_, _, _)
read_back_headers(self, input, turns) ==
    IF turns = 0 THEN [kind |-> "failed", self |-> self, rest |-> input]
    ELSE Bind(read_headers_internal(self, input), LAMBDA r :
        IF r.res.kind = "ok"
        THEN IF r.self.state.name = "ParseClusters"
             THEN [kind |-> "ok", self |-> r.self, rest |-> r.res.rest]
             ELSE read_back_headers(r.self, r.res.rest, turns - 1)
        ELSE IF r.res.kind = "Seek" /\ r.res.arg <= Len(input)
        THEN read_back_headers(r.self, Drop(input, r.res.arg), turns - 1)
        ELSE [kind |-> "failed", self |-> r.self, rest |-> input])

\* the calls of DemuxerContext::read_packet up to the first None
RECURSIVE read_back_packets(_, _, _, _)
read_back_packets(self, input, read, turns) ==
    IF turns = 0 THEN read
    ELSE Bind(read_packet_internal(self, input), LAMBDA r :
        IF r.res.kind = "ok"
        THEN read_back_packets(r.self, r.res.rest,
                 IF r.res.val = None THEN read ELSE Append(read, r.res.val[1]),
                 turns - 1)
        ELSE IF r.res.kind = "Seek" /\ r.res.arg <= Len(input)
        THEN read_back_packets(r.self, Drop(input, r.res.arg), read, turns - 1)
        ELSE read)

read_back(file) ==
    Bind(read_back_headers(new2, file, Len(file) + 1), LAMBDA h :
        [pc |-> "read", file |-> file, headers |-> h.kind, movie |-> h.self.movie,
         packets |-> IF h.kind = "ok"
                     THEN read_back_packets(h.self, h.rest, <<>>, Len(h.rest) + 1)
                     ELSE <<>>])

\* the file written so far is opened and read by a demuxer
MuxReadBack ==
    /\ mux.pc = "idle"
    /\ mux.out # <<>>
    /\ IF rt.pc = "idle" THEN TRUE ELSE rt.file # mux.out
    /\ rt' = read_back(mux.out)
    /\ UNCHANGED <<muxFrame, pool, chan, alloc_count, muxer, mux>>

NextMux ==
    \/ MuxCallStart
    \/ MuxStart
    \/ MuxCallWrite
    \/ MuxWrite
    \/ MuxStop
    \/ MuxReadBack

SpecMux == InitMux /\ [][NextMux]_vars

(***************************************************************************)
(* C12: every write call of the muxer that has the scratch memory it needs *)
(* succeeds; made when current_cluster_len = 0 it emits a Cluster header   *)
(* (Cluster id, unknown length, Timestamp = the packet's pts) followed by  *)
(* the packet's SimpleBlock, otherwise the SimpleBlock only, and           *)
(* current_cluster_len counts the blocks of the cluster up to 30 and then  *)
(* returns to 0.                                                           *)
(***************************************************************************)
\* an unsigned element in its least number of bytes, big-endian
UIntElementBytes(id, v) ==
    write_vid(id) \o write_vint(MinUIntBytes(v)) \o to_be_bytes(v, MinUIntBytes(v))

ClusterHeaderBytes(pts) ==
    write_vid(CLUSTER) \o <<255>> \o UIntElementBytes(TIMESTAMP, pts)

SimpleBlockBytes(packet, cluster_pts) ==
    LET body == write_vint(packet.track.id)
                \o to_be_bytes((packet.time.pts - cluster_pts) % 65536, 2)
                \o <<IF packet.key THEN 128 ELSE 0>>
                \o realized_bytes(packet.buffer, <<>>)
    IN  write_vid(SIMPLE_BLOCK) \o write_vint(Len(body)) \o body

\* a step that ends a call of write: the muxer did not ask for memory
WriteAnswered == mux.pc = "write" /\ mux'.last.kind # "NeedMore"

WriteEmitsClusterThenBlock ==
    [][WriteAnswered =>
          /\ mux'.last.kind = "ok"
          /\ muxer'.current_cluster_len =
                 IF muxer.current_cluster_len + 1 > 30 THEN 0
                 ELSE muxer.current_cluster_len + 1
          /\ mux'.last.bytes =
                 IF muxer.current_cluster_len = 0
                 THEN ClusterHeaderBytes(mux.packet[1].time.pts)
                      \o SimpleBlockBytes(mux.packet[1], mux.packet[1].time.pts)
                 ELSE SimpleBlockBytes(mux.packet[1], muxer.current_cluster_pts)]_vars

(***************************************************************************)
(* C13: every write call of the muxer that has the scratch memory it needs *)
(* emits a SimpleBlock whose 16-bit timestamp is the packet's pts minus    *)
(* the pts of the cluster the block goes into, and that difference fits a  *)
(* signed 16-bit integer.                                                  *)
(***************************************************************************)
\* the timestamp field of the SimpleBlock at the end of `bytes`
BlockTimestampOf(bytes, packet) ==
    LET at == Len(bytes) - Len(realized_bytes(packet.buffer, <<>>)) - 2
    IN  be_i16(SubSeq(bytes, at, at + 1)).val

BlockTimestampExact ==
    [][WriteAnswered =>
          /\ mux'.last.kind = "ok"
          /\ mux.packet[1].time.pts - muxer'.current_cluster_pts \in -32768..32767
          /\ BlockTimestampOf(mux'.last.bytes, mux.packet[1])
                 = mux.packet[1].time.pts - muxer'.current_cluster_pts]_vars

(***************************************************************************)
(* C14: start and every write answer with bytes, and the file made by one  *)
(* start followed by one write per packet begins with 1A 45 DF A3 and is   *)
(* read by the demuxer as a Movie with the same track ids and codec ids    *)
(* and then packets with the same track, pts, key flag and buffer bytes,   *)
(* in the same order.                                                      *)
(***************************************************************************)
\* the codec id of a track the demuxer made: convert_track leaves
\* MediaInfo::default()
demuxed_codec_id(track) == "Unknown"

SamePacket(read, sent) ==
    /\ read.track.id = sent.track.id
    /\ read.time.pts = sent.time.pts
    /\ read.key = sent.key
    /\ read.buffer = realized_bytes(sent.buffer, <<>>)

MuxDemuxRoundTrip ==
    /\ mux.last.call \in {"start", "write"} => mux.last.kind \in {"ok", "NeedMore"}
    /\ (rt.pc = "read" /\ mux.pc = "idle" /\ rt.file = mux.out
           /\ mux.calls = 1 + Len(mux.sent)) =>
          /\ Take(rt.file, 4) = <<26, 69, 223, 163>>
          /\ rt.headers = "ok"
          /\ Len(rt.movie) = Len(mux.movie.tracks)
          /\ \A i \in 1..Len(rt.movie) :
                /\ rt.movie[i].id = mux.movie.tracks[i].id
                /\ demuxed_codec_id(rt.movie[i]) = mux.movie.tracks[i].info.codec_id
          /\ Len(rt.packets) = Len(mux.sent)
          /\ \A i \in 1..Len(rt.packets) : SamePacket(rt.packets[i], mux.sent[i])

(***************************************************************************)
(* C15: every call of start and of write on one SyncMuxerContext returns   *)
(* having written to the output the bytes of the span the muxer answered,  *)
(* once and after the bytes of the calls before it, and a turn of a loop   *)
(* that ends in NeedMore writes nothing.                                   *)
(***************************************************************************)
CallWritesSpanOnce ==
    [][mux.pc \in {"start", "write"} =>
          IF mux'.last.kind = "NeedMore"
          THEN mux'.out = mux.out /\ mux'.pc = mux.pc
          ELSE /\ mux'.pc = "idle"
               /\ mux'.last.kind = "ok"
               /\ mux'.out = mux.out \o mux'.last.bytes]_vars

(***************************************************************************)
(* C16: after any sequence of start and write calls, stop on a muxer that  *)
(* tracked no cues returns Ok with an empty span and does not abort.       *)
(***************************************************************************)
StopReturnsEmptySpan ==
    mux.last.call = "stop" =>
        /\ mux.last.kind = "ok"
        /\ mux.last.bytes = <<>>
        /\ mux.pc # "panic"

(***************************************************************************)
(* C17: for every v below 2^56 (here: every v of VintValues), write_vint   *)
(* puts the least number of bytes b with v < 2^(7b), and ebml_vint on      *)
(* those bytes answers v and consumes exactly the b bytes.                 *)
(***************************************************************************)
\* the least b in 1..8 with v < 2^(7b), for v < 2^31
MinVintBytes(v) ==
    CHOOSE b \in 1..8 :
        /\ (b < 5 => v < 2 ^ (7 * b))
        /\ (b > 1 => (b - 1 < 5 /\ v >= 2 ^ (7 * (b - 1))))

VintRoundTrip ==
    ebml.op = "write_vint" =>
        /\ Len(ebml.bytes) = MinVintBytes(ebml.v)
        /\ ebml.read = Ok(EbmlTrailer, ebml.v)

VintRoundTripWitness ==
    /\ ebml.op = "write_vint"
    /\ ebml.v = 2 ^ 28
    /\ Len(ebml.bytes) = 5
    /\ ebml.read.val = 2 ^ 28

(***************************************************************************)
(* C18: ebml_len answers Unknown(width) when the payload bits of the       *)
(* length are all ones and Known(value) otherwise, so that a Known length  *)
(* the muxer wrote is never read as Unknown and an Unknown length never as *)
(* Known.                                                                  *)
(***************************************************************************)
LenUnknownIffAllOnes ==
    /\ ebml.op = "ebml_len" =>
          /\ ebml.read.kind = "ok"
          /\ ebml.read.val = IF AllOnes(ebml.input) THEN Unknown(Len(ebml.input))
                             ELSE Known(vint_value(ebml.input, Len(ebml.input)))
    /\ ebml.op = "EbmlLength::write" =>
          /\ ebml.read.kind = "ok"
          /\ ebml.read.val.known = ebml.length.known

(***************************************************************************)
(* C19: for every EbmlElement and EbmlMasterElement, write puts exactly    *)
(* full_size() = id.size + length.size + content.size bytes, and the Known *)
(* length of the header is the number of content bytes put after it.       *)
(***************************************************************************)
WriteMatchesFullSize ==
    ebml.op \in {"EbmlElement::write", "EbmlMasterElement::write"} =>
        /\ Len(ebml.bytes) = ebml.full_size
        /\ ebml.header.kind = "ok"
        /\ ebml.header.val.len = Known(Len(ebml.content))

(***************************************************************************)
(* C20: an unsigned value v is written as the least number of bytes that   *)
(* hold it (one byte for zero), most significant byte first, and ebml_uint *)
(* on the written element answers v.                                       *)
(***************************************************************************)
UIntMinimalBigEndian ==
    ebml.op = "write_uint_elem" =>
        /\ ebml.content = to_be_bytes(ebml.v, MinUIntBytes(ebml.v))
        /\ ebml.read = Ok(<<>>, ebml.v)

(***************************************************************************)
(* Span as a rope (src/mediabox/src/span.rs).  Many holds its children in  *)
(* the field spans; Single, Slice, RefCounted and NonRealizedMemory are    *)
(* the fragments, RefCounted holding the bytes of its memory.  Span_len    *)
(* above is Span::len on the fragments of a Many that has no Many inside.  *)
(* None is a panic of the operation.                                       *)
(***************************************************************************)
Many(spans) == [kind |-> "Many", spans |-> spans]
Slice(bytes) == [kind |-> "Slice", start |-> 0, end |-> 0, bytes |-> bytes]
RefCounted(mem, start, end) ==
    [kind |-> "RefCounted", start |-> start, end |-> end, bytes |-> mem]

\* Span::visit: the byte slices handed to func, in order
RECURSIVE visit(_)
RECURSIVE visit_spans(_, _)
visit(span) ==
    IF span.kind = "Many" THEN visit_spans(span.spans, <<>>)
    ELSE IF span.kind = "RefCounted"
    THEN Some(<<SubSeq(span.bytes, span.start + 1, span.end)>>)
    ELSE IF span.kind = "NonRealizedMemory" THEN None
    ELSE Some(<<span.bytes>>)

\* the loop of visit over the children of a Many
visit_spans(spans, seen) ==
    IF spans = <<>> THEN Some(seen)
    ELSE Bind(visit(Head(spans)), LAMBDA v :
            IF v = None THEN None ELSE visit_spans(Tail(spans), seen \o v[1]))

RECURSIVE Flatten(_)
Flatten(slices) ==
    IF slices = <<>> THEN <<>> ELSE Head(slices) \o Flatten(Tail(slices))

\* Span::len
len(span) ==
    Bind(visit(span), LAMBDA v : IF v = None THEN None ELSE Some(Len(Flatten(v[1]))))

\* Span::to_bytes
to_bytes(span) ==
    IF span.kind = "NonRealizedMemory" THEN None
    ELSE Bind(visit(span), LAMBDA v : IF v = None THEN None ELSE Some(Flatten(v[1])))

\* Bytes::slice and &bytes[range]: both panic on a range that is not
\* inside the bytes
bytes_slice(bytes, start, end) ==
    IF start <= end /\ end <= Len(bytes) THEN Some(SubSeq(bytes, start + 1, end))
    ELSE None

\* slice_start of slice_range with nothing skipped in the first child
slice_start_from_child_start(start, i) == 0

\* slice_start of slice_range: where the range starts in the child at i
slice_start(start, i) == IF start > i THEN start - i ELSE 0

RECURSIVE slice(_, _, _)
RECURSIVE slice_range(_, _, _)
RECURSIVE slice_many(_, _, _, _, _)

\* Span::slice(start..end), end = None for the range start..
slice(span, start, end) ==
    IF span.kind = "Single"
    THEN Bind(bytes_slice(span.bytes, start,
                          IF end = None THEN Len(span.bytes) ELSE end[1]),
              LAMBDA b : IF b = None THEN None ELSE Some(Single(b[1])))
    ELSE IF end # None THEN slice_range(span, start, end[1])
    ELSE Bind(len(span), LAMBDA n :
            IF n = None THEN None ELSE slice_range(span, start, n[1]))

\* Span::slice_range
slice_range(span, start, end) ==
    IF span.kind = "Many" THEN slice_many(span.spans, start, end, 0, <<>>)
    ELSE IF span.kind \in {"RefCounted", "NonRealizedMemory"}
    THEN Some([span EXCEPT !.start = span.start + start, !.end = span.start + end])
    ELSE Bind(bytes_slice(span.bytes, start, end), LAMBDA b :
            IF b = None THEN None ELSE Some([span EXCEPT !.bytes = b[1]]))

\* the loop of slice_range over the children of a Many: i is the offset of
\* the child, new_spans the slices pushed
slice_many(spans, start, end, i, new_spans) ==
    IF spans = <<>> \/ i >= end THEN Some(Many(new_spans))
    ELSE Bind(len(Head(spans)), LAMBDA n :
        IF n = None THEN None
        ELSE IF start >= i + n[1]
        THEN slice_many(Tail(spans), start, end, i + n[1], new_spans)
        ELSE Bind(slice(Head(spans), slice_start(start, i),
                        Some(Min(end - i, n[1]))),
                  LAMBDA s :
                      IF s = None THEN None
                      ELSE slice_many(Tail(spans), start, end, i + n[1],
                                      Append(new_spans, s[1]))))

(***************************************************************************)
(* SpecSpan: slice and len applied to spans of at most MaxFragments        *)
(* fragments, borrowed, owned, pool-backed, empty, and to a Many inside a  *)
(* Many; len also to spans with a fragment that is not realized.           *)
(***************************************************************************)
SpanMemory == <<9, 4, 5, 9>>

Fragments ==
    {Slice(<<>>), Slice(<<1, 2>>), Single(<<3>>), RefCounted(SpanMemory, 1, 3)}

RECURSIVE FragmentLists(_)
FragmentLists(n) ==
    IF n = 0 THEN {<<>>}
    ELSE FragmentLists(n - 1)
         \cup {Append(l, f) : l \in {m \in FragmentLists(n - 1) : Len(m) = n - 1},
                              f \in Fragments}

\* the spans that are realized
Spans ==
    Fragments
    \cup {Many(l) : l \in FragmentLists(MaxFragments)}
    \cup {Many(<<Slice(<<1, 2>>), Many(<<Single(<<3>>), RefCounted(SpanMemory, 1, 3)>>),
                 Single(<<6>>)>>)}

\* spans with a fragment the scratch memory wrote, as make_element gets
UnrealizedSpans ==
    {NonRealizedMemory(0, 4),
     Many(<<NonRealizedMemory(0, 4)>>),
     Many(<<NonRealizedMemory(0, 4), Single(<<222, 173>>)>>),
     Many(<<Single(<<222, 173>>), NonRealizedMemory(4, 6)>>)}

InitSpan ==
    /\ rope = [op |-> "none"]
    /\ nal = [op |-> "none"]
    /\ probed = [op |-> "none"]
    /\ ebml = [op |-> "none"]
    /\ muxer = NewMuxer
    /\ mux = [pc |-> "idle"]
    /\ rt = [pc |-> "idle"]
    /\ ReaderUnused
    /\ op = [name |-> "new"]
    /\ PoolUnused
    /\ MkvUnused

spanFrame == <<readerVars, op, poolVars, mkvVars, ebml, muxer, mux, rt, nal, probed>>

\* span.slice(a..b) and to_bytes of the span and of the slice
SpanSlice ==
    /\ rope.op = "none"
    /\ \E s \in Spans :
          \E a \in 0..len(s)[1] : \E b \in a..len(s)[1] :
              rope' = [op |-> "slice", span |-> s, start |-> a, end |-> b,
                       sliced |-> slice(s, a, Some(b)),
                       bytes |-> to_bytes(s)[1]]
    /\ UNCHANGED spanFrame

\* span.slice(a..)
SpanSliceFrom ==
    /\ rope.op = "none"
    /\ \E s \in Spans :
          \E a \in 0..len(s)[1] :
              rope' = [op |-> "slice", span |-> s, start |-> a, end |-> len(s)[1],
                       sliced |-> slice(s, a, None),
                       bytes |-> to_bytes(s)[1]]
    /\ UNCHANGED spanFrame

\* span.len()
SpanLen ==
    /\ rope.op = "none"
    /\ \E s \in Spans \cup UnrealizedSpans :
          rope' = [op |-> "len", span |-> s, len |-> len(s)]
    /\ UNCHANGED spanFrame

(***************************************************************************)
(* unrealize_from_memory and realize_with_memory.  A borrowed slice has an *)
(* address: start is the pointer of the slice, end the pointer past it.    *)
(* A Memory is [base, data]: the address of its vector and its bytes.      *)
(***************************************************************************)
SliceAt(ptr, bytes) ==
    [kind |-> "Slice", start |-> ptr, end |-> ptr + Len(bytes), bytes |-> bytes]

\* the pool mem the slices of the model are borrowed from
PoolMemory == [base |-> 16, data |-> SpanMemory]

\* &memory[a..b], as a borrowed slice
Borrow(mem, a, b) == SliceAt(mem.base + a, SubSeq(mem.data, a + 1, b))

\* Memory::get_offset
get_offset(mem, borrowed) ==
    IF borrowed.start >= mem.base
       /\ borrowed.start + Len(borrowed.bytes) <= mem.base + Len(mem.data)
    THEN Some(borrowed.start - mem.base)
    ELSE None

\* the closure of unrealize_from_memory on one span; None is a panic
\* (expect on get_offset, unreachable!() on a Many)
unrealize_span(span, mem) ==
    IF span.kind = "Slice"
    THEN Bind(get_offset(mem, span), LAMBDA offset :
            IF offset = None THEN None
            ELSE Some(NonRealizedMemory(offset[1], offset[1] + Len(span.bytes))))
    ELSE IF span.kind = "Many" THEN None
    ELSE Some(span)

\* make_static with that closure: the closure on the span itself, or on
\* each child of a Many
unrealize_from_memory(span, mem) ==
    IF span.kind = "Many"
    THEN IF \E i \in 1..Len(span.spans) : unrealize_span(span.spans[i], mem) = None
         THEN None
         ELSE Some(Many([i \in 1..Len(span.spans) |->
                            unrealize_span(span.spans[i], mem)[1]]))
    ELSE unrealize_span(span, mem)

\* realize_with_memory: visit_mut goes through every Many
RECURSIVE realize_with_memory(_, _)
realize_with_memory(span, mem) ==
    IF span.kind = "Many"
    THEN Many([i \in 1..Len(span.spans) |-> realize_with_memory(span.spans[i], mem)])
    ELSE IF span.kind = "NonRealizedMemory"
    THEN RefCounted(mem.data, span.start, span.end)
    ELSE span

\* fragments borrowed from PoolMemory, owned, and backed by another memory
BorrowedFragments ==
    {Borrow(PoolMemory, 1, 3), Borrow(PoolMemory, 0, 4), Borrow(PoolMemory, 4, 4),
     Single(<<3>>), RefCounted(<<7, 8>>, 0, 2)}

\* a single fragment, the flat concatenations of at most MaxFragments
\* fragments, and concatenations with a concatenation as a child
BorrowedSpans ==
    BorrowedFragments
    \cup {Many(l) : l \in {<<>>} \cup {<<a>> : a \in BorrowedFragments}
                         \cup {<<a, b>> : a \in BorrowedFragments, b \in BorrowedFragments}}
    \cup {Many(<<a, Many(<<b>>)>>) : a \in BorrowedFragments, b \in BorrowedFragments}

\* span.unrealize_from_memory(&M) and then realize_with_memory(M)
SpanUnrealizeRealize ==
    /\ rope.op = "none"
    /\ \E s \in BorrowedSpans :
          rope' = [op |-> "unrealize_realize", span |-> s,
                   unrealized |-> unrealize_from_memory(s, PoolMemory),
                   realized |->
                       Bind(unrealize_from_memory(s, PoolMemory), LAMBDA u :
                           IF u = None THEN None
                           ELSE Some(realize_with_memory(u[1], PoolMemory)))]
    /\ UNCHANGED spanFrame

NextSpan ==
    \/ SpanSlice
    \/ SpanSliceFrom
    \/ SpanLen
    \/ SpanUnrealizeRealize

SpecSpan == InitSpan /\ [][NextSpan]_vars

(***************************************************************************)
(* C21: for every realized span S and every range a..b inside 0..S.len(),  *)
(* S.slice(a..b) does not panic and its bytes are bytes a..b of the bytes  *)
(* of S.                                                                   *)
(***************************************************************************)
SliceIsSubrange ==
    rope.op = "slice" =>
        /\ rope.sliced # None
        /\ to_bytes(rope.sliced[1]) = Some(SubSeq(rope.bytes, rope.start + 1, rope.end))

SliceIsSubrangeWitness ==
    /\ rope.op = "slice"
    /\ rope.span.kind = "Many"
    /\ Len(rope.span.spans) = 3
    /\ rope.span.spans[2].kind = "RefCounted"
    /\ rope.start = 1
    /\ rope.end = 5
    /\ rope.sliced # None
    /\ Len(rope.sliced[1].spans) = 3

(***************************************************************************)
(* C22: len() of every span is the sum of the lengths of its fragments, a  *)
(* fragment that is not realized counting end - start, and never panics.   *)
(***************************************************************************)
RECURSIVE FragmentsLen(_)
FragmentsLen(s) ==
    IF s.kind = "Many"
    THEN IF s.spans = <<>> THEN 0
         ELSE FragmentsLen(Head(s.spans)) + FragmentsLen(Many(Tail(s.spans)))
    ELSE IF s.kind \in {"RefCounted", "NonRealizedMemory"} THEN s.end - s.start
    ELSE Len(s.bytes)

LenCountsEveryFragment ==
    rope.op = "len" => rope.len = Some(FragmentsLen(rope.span))

(***************************************************************************)
(* NAL unit framing (src/mediabox/src/codec/nal.rs).  A bitstream and a    *)
(* NAL unit are Spans; a framing is "TwoByteLength", "FourByteLength" or   *)
(* "FourByteStartCode".  parse_bitstream_start_codes hands the bitstream   *)
(* to the AnnexBReader of the h264_reader crate and is not modelled.       *)
(***************************************************************************)
FOUR_BYTE_STARTCODE == <<0, 0, 0, 1>>

LengthFramings == {"TwoByteLength", "FourByteLength"}
Framings == LengthFramings \cup {"FourByteStartCode"}

\* u16::from_be_bytes, u32::from_be_bytes
from_be_bytes(bytes) == fold_be(0, bytes)

\* Span::to_slice
to_slice(span) ==
    IF span.kind = "Many" THEN to_bytes(span)
    ELSE IF span.kind = "NonRealizedMemory" THEN None
    ELSE IF span.kind = "RefCounted"
    THEN bytes_slice(span.bytes, span.start, span.end)
    ELSE Some(span.bytes)

\* the loop of parse_bitstream_length_field with the bound of the source,
\* i < len - N in usize: for len < N the subtraction panics in a build with
\* overflow checks and wraps in one without, where the loop then runs and
\* <[u8; N]>::try_from(..).unwrap() panics on the short slice
RECURSIVE parse_length_field_loop(_, _, _, _, _)
parse_length_field_loop(bitstream, N, i, length, nal_units) ==
    IF length >= N /\ ~(i < length - N) THEN Some(nal_units)
    ELSE Bind(slice(bitstream, i, Some(i + N)), LAMBDA len_span :
        IF len_span = None THEN None
        ELSE Bind(to_slice(len_span[1]), LAMBDA len_bytes :
            IF len_bytes = None \/ Len(len_bytes[1]) # N THEN None
            ELSE Bind(slice(bitstream, i + N, Some(i + N + from_be_bytes(len_bytes[1]))),
                      LAMBDA nal_unit :
                          IF nal_unit = None THEN None
                          ELSE parse_length_field_loop(bitstream, N,
                                   i + N + from_be_bytes(len_bytes[1]), length,
                                   Append(nal_units, nal_unit[1])))))

\* parse_bitstream_length_field::<N>: Option<Vec<Span>>, None a panic
parse_bitstream_length_field(bitstream, N) ==
    Bind(len(bitstream), LAMBDA length :
        IF length = None THEN None
        ELSE parse_length_field_loop(bitstream, N, 0, length[1], <<>>))

\* parse_bitstream for the framings with a length field
parse_bitstream(bitstream, source) ==
    IF source = "TwoByteLength" THEN parse_bitstream_length_field(bitstream, 2)
    ELSE parse_bitstream_length_field(bitstream, 4)

RECURSIVE frame_nal_units_with_start_codes(_, _)
frame_nal_units_with_start_codes(nal_units, codes) ==
    IF nal_units = <<>> THEN <<>>
    ELSE <<Single(codes), Head(nal_units)>>
         \o frame_nal_units_with_start_codes(Tail(nal_units), codes)

\* `len as u16` and `len as u32` of a usize; a length of the model is below
\* 2^31 and `as u32` keeps it
as_uN(v, N) == IF N = 2 THEN v % 65536 ELSE v

\* frame_nal_units_with_length::<N>, func = (len as uN).to_be_bytes(); the
\* units are realized
RECURSIVE frame_nal_units_with_length(_, _)
frame_nal_units_with_length(nal_units, N) ==
    IF nal_units = <<>> THEN <<>>
    ELSE <<Single(to_be_bytes(as_uN(len(Head(nal_units))[1], N), N)),
           Head(nal_units)>>
         \o frame_nal_units_with_length(Tail(nal_units), N)

\* frame_nal_units: the Span collected from the prefixes and the units
frame_nal_units(nal_units, target) ==
    Many(IF target = "TwoByteLength" THEN frame_nal_units_with_length(nal_units, 2)
         ELSE IF target = "FourByteLength" THEN frame_nal_units_with_length(nal_units, 4)
         ELSE frame_nal_units_with_start_codes(nal_units, FOUR_BYTE_STARTCODE))

\* convert_bitstream from a framing with a length field: Option<Span>
convert_bitstream(bitstream, source, target) ==
    IF source = target THEN Some(bitstream)
    ELSE Bind(parse_bitstream(bitstream, source), LAMBDA nal_units :
            IF nal_units = None THEN None
            ELSE Some(frame_nal_units(nal_units[1], target)))

(***************************************************************************)
(* SpecNal: frame_nal_units, parse_bitstream and convert_bitstream applied *)
(* to lists of at most MaxNals units, empty units included.                *)
(***************************************************************************)
NalUnits == {Slice(<<>>), Slice(<<101>>), Single(<<5, 97>>)}

RECURSIVE NalLists(_)
NalLists(n) ==
    IF n = 0 THEN {<<>>}
    ELSE NalLists(n - 1)
         \cup {Append(l, u) : l \in {m \in NalLists(n - 1) : Len(m) = n - 1},
                              u \in NalUnits}

\* the bytes of each unit of a list, None when the list is a panic
units_bytes(nal_units) ==
    IF nal_units = None THEN None
    ELSE Some([i \in 1..Len(nal_units[1]) |-> to_bytes(nal_units[1][i])])

span_bytes(span) == IF span = None THEN None ELSE to_bytes(span[1])

InitNal ==
    /\ nal = [op |-> "none"]
    /\ probed = [op |-> "none"]
    /\ rope = [op |-> "none"]
    /\ ebml = [op |-> "none"]
    /\ muxer = NewMuxer
    /\ mux = [pc |-> "idle"]
    /\ rt = [pc |-> "idle"]
    /\ ReaderUnused
    /\ op = [name |-> "new"]
    /\ PoolUnused
    /\ MkvUnused

nalFrame == <<readerVars, op, poolVars, mkvVars, ebml, muxer, mux, rt, rope, probed>>

\* frame_nal_units(N, F)
NalFrame ==
    /\ nal.op = "none"
    /\ \E N \in NalLists(MaxNals), F \in Framings :
          nal' = [op |-> "frame", units |-> N, framing |-> F,
                  framed |-> to_bytes(frame_nal_units(N, F))]
    /\ UNCHANGED nalFrame

\* parse_bitstream(frame_nal_units(N, F), F)
NalParse ==
    /\ nal.op = "none"
    /\ \E N \in NalLists(MaxNals), F \in LengthFramings :
          nal' = [op |-> "parse", units |-> N, framing |-> F,
                  parsed |-> units_bytes(parse_bitstream(frame_nal_units(N, F), F))]
    /\ UNCHANGED nalFrame

\* convert_bitstream(frame_nal_units(N, F1), F1, F2)
NalConvert ==
    /\ nal.op = "none"
    /\ \E N \in NalLists(MaxNals), F1 \in LengthFramings, F2 \in Framings :
          nal' = [op |-> "convert", units |-> N, framing |-> F1, target |-> F2,
                  converted |-> span_bytes(convert_bitstream(frame_nal_units(N, F1),
                                                             F1, F2)),
                  framed |-> to_bytes(frame_nal_units(N, F2))]
    /\ UNCHANGED nalFrame

NextNal ==
    \/ NalFrame
    \/ NalParse
    \/ NalConvert

SpecNal == InitNal /\ [][NextNal]_vars

(***************************************************************************)
(* C23: for every list N of NAL units, empty units and the empty list      *)
(* included, frame(N, F) is the concatenation in order of prefix(F, unit)  *)
(* and the unit, parse(frame(N, F), F) is N, and                           *)
(* convert(frame(N, F1), F1, F2) has the bytes of frame(N, F2); checked    *)
(* for parsing from a framing with a length field.                         *)
(***************************************************************************)
NalPrefix(F, unit) ==
    IF F = "TwoByteLength" THEN to_be_bytes(Len(unit), 2)
    ELSE IF F = "FourByteLength" THEN to_be_bytes(Len(unit), 4)
    ELSE <<0, 0, 0, 1>>

RECURSIVE FramedBytes(_, _)
FramedBytes(units, F) ==
    IF units = <<>> THEN <<>>
    ELSE NalPrefix(F, to_bytes(Head(units))[1]) \o to_bytes(Head(units))[1]
         \o FramedBytes(Tail(units), F)

FramingRoundTrip ==
    /\ nal.op = "frame" => nal.framed = Some(FramedBytes(nal.units, nal.framing))
    /\ nal.op = "parse" => nal.parsed = units_bytes(Some(nal.units))
    /\ nal.op = "convert" => nal.converted = Some(FramedBytes(nal.units, nal.target))

(***************************************************************************)
(* C24: the Movie read_headers returns has exactly one Track for every     *)
(* TrackEntry of the Tracks element, in order, with the number of the      *)
(* entry as its id and the codec its CodecID names: H264, Aac, WebVtt or   *)
(* Ass, and Unknown for any other string.                                  *)
(***************************************************************************)
\* the TrackEntry elements of the Tracks elements of a file
FileTrackEntries(file) ==
    IF file = FileTracksTwice
    THEN parse_tracks(FileTracks).val \o parse_tracks(FileTracks).val
    ELSE parse_tracks(FileTracks).val

\* the CodecId a CodecID string of a TrackEntry names
CodecIdOf(codec_id) ==
    IF codec_id # None /\ \E c \in {"H264", "Aac", "WebVtt", "Ass"} :
                              to_mkv_codec_id(c) = codec_id[1]
    THEN CHOOSE c \in {"H264", "Aac", "WebVtt", "Ass"} : to_mkv_codec_id(c) = codec_id[1]
    ELSE "Unknown"

TrackPerEntry ==
    ctx.movie # None =>
        /\ Len(ctx.movie[1]) = Len(FileTrackEntries(src))
        /\ \A i \in 1..Len(ctx.movie[1]) :
              /\ ctx.movie[1][i].id = FileTrackEntries(src)[i].number[1]
              /\ demuxed_codec_id(ctx.movie[1][i])
                     = CodecIdOf(FileTrackEntries(src)[i].codec_id)

(***************************************************************************)
(* C25: the track ids of the Movie read_headers returns are pairwise       *)
(* distinct, for every file, one with the Tracks element twice before the  *)
(* first cluster included.                                                 *)
(***************************************************************************)
TrackIdsDistinct ==
    ctx.movie # None =>
        \A i, j \in 1..Len(ctx.movie[1]) :
            ctx.movie[1][i].id = ctx.movie[1][j].id => i = j

(***************************************************************************)
(* C26: every fill_buf that returns Ok leaves end strictly greater than it *)
(* was before the call, in every state of the reader, a full buffer and a  *)
(* buffer with pos > 0 included.                                           *)
(***************************************************************************)
FillAdvancesEnd ==
    [][(op'.name = "fill_buf" /\ op'.ok) => reader'.end > reader.end]_vars

(***************************************************************************)
(* C27: after ensure_additional(buf, n) the vector has room for n bytes    *)
(* past end, buf.len() - end >= n, in every state of the reader, and the   *)
(* bytes of data() are those of before the call.                           *)
(***************************************************************************)
EnsureAdditionalMakesRoom ==
    [][op'.name = "ensure_additional" =>
          /\ Len(memory'.data) - reader'.end >= op'.arg
          /\ data(reader', memory'.data) = data(reader, memory.data)]_vars

(***************************************************************************)
(* C28: seek(Current(d)) with its target inside the buffered window,       *)
(* buf_pos <= target <= buf_pos + end, succeeds for a Stream too and moves *)
(* pos only: end, the bytes and the position of the inner reader are left  *)
(* alone.  With the target outside the window a successful seek leaves the *)
(* inner reader at the target, buf_pos = target and pos = end = 0, and a   *)
(* failed one leaves the reader as it was.                                 *)
(***************************************************************************)
SeekTarget(self, d) == self.buf_pos + self.pos + d

InWindow(self, target) ==
    self.buf_pos <= target /\ target <= self.buf_pos + self.end

SeekMovesPosOrInner ==
    [][op'.name = "seek" =>
          LET target == SeekTarget(reader, op'.arg)
          IN  IF InWindow(reader, target)
              THEN /\ op'.ok
                   /\ reader' = [reader EXCEPT !.pos = target - reader.buf_pos]
                   /\ memory' = memory
              ELSE IF op'.ok
              THEN /\ reader'.inner = target
                   /\ reader'.buf_pos = target
                   /\ reader'.pos = 0
                   /\ reader'.end = 0
              ELSE reader' = reader]_vars

\* a backward seek that left the window and moved the inner reader
SeekMovesPosOrInnerWitness ==
    /\ op.name = "seek"
    /\ op.ok
    /\ op.arg < 0
    /\ reader.buf_pos > 0
    /\ reader.inner = reader.buf_pos
    /\ reader.pos = 0
    /\ reader.end = 0

(***************************************************************************)
(* C29: in a pool with max_capacity = Some(M) and alloc_count < M, an      *)
(* alloc or try_alloc of a size no free buffer is long enough for creates  *)
(* a new vector of length max(size, default_memory_capacity): alloc_count  *)
(* grows by one and the answer is none of the free vectors.  (So a free    *)
(* vector is grown in place only with alloc_count >= M.)                   *)
(***************************************************************************)
NewBufferBelowCap ==
    (/\ op.name \in {"alloc", "try_alloc"}
     /\ config.max_capacity # None
     /\ op.count_before < config.max_capacity[1]
     /\ op.first_fit = None)
        => /\ op.res # None
           /\ op.count_after = op.count_before + 1
           /\ Len(op.res[1].data) = Max(op.size, config.default_memory_capacity)
           /\ \A i \in 1..Len(op.free_before) : op.free_before[i] # op.res[1].id

(***************************************************************************)
(* C30: a thread waiting in recv() inside alloc(size), the pool capped     *)
(* and every vector outstanding, returns once a vector has been dropped    *)
(* onto the channel, with a buffer of length >= size; it does not return   *)
(* while the channel is empty.                                             *)
(***************************************************************************)
\* a thread is waiting in recv(); it holds the write lock, so it is the only one
InRecv == \E t \in Threads : pc[t] = "alloc_recv"

BlockedAllocReturns ==
    /\ (InRecv /\ chan # <<>>) ~> ~InRecv
    /\ [][\A t \in Threads :
             (pc[t] = "alloc_recv" /\ pc'[t] # "alloc_recv") =>
                 /\ chan # <<>>
                 /\ pc'[t] = "idle"
                 /\ op'.res # None
                 /\ Len(op'.res[1].data) >= req[t]
                 /\ op'.res[1] \in held'[t]]_vars

\* thread 1 has come back from recv() with the vector thread 2 dropped,
\* grown to the size asked for
BlockedAllocReturnsWitness ==
    /\ op.name = "alloc"
    /\ "woken" \in DOMAIN op
    /\ op.woken = 1
    /\ op.held_before = 0
    /\ op.first_fit = None
    /\ op.res # None
    /\ op.res[1] \in held[1]
    /\ Len(op.res[1].data) = op.size

(***************************************************************************)
(* C31: the demuxer skips the element at absolute offset p by answering    *)
(* Seek(Current(header_len + body_len)) without consuming the header; once *)
(* the context has run that seek, data() starts at absolute offset         *)
(* p + header_len + body_len of the file, with the target inside the       *)
(* buffered window, beyond its end, or the element buffered in part.       *)
(***************************************************************************)
\* header_len + body_len of the element of the file at offset at
ElementSize(at) ==
    LET h == ebml_element_header(Drop(src, at))
    IN  slice_dist(Drop(src, at), h.rest) + h.val.len.v

\* data() is the run of bytes of the file from offset at on
DataStartsAt(at) ==
    /\ reader.buf_pos + reader.pos = at
    /\ \A i \in 1..Len(data(reader, memory.data)) :
          at + i <= Len(src) /\ data(reader, memory.data)[i] = src[at + i]

SkipLandsAfterElement ==
    /\ [][(ctx.pc = "demux" /\ ctx'.pc = "seek") =>
              /\ reader' = reader
              /\ ctx'.res.arg = ElementSize(reader.buf_pos + reader.pos)]_vars
    /\ [][(ctx.pc = "seek" /\ ctx'.pc = "demux") =>
              reader'.buf_pos + reader'.pos
                  = reader.buf_pos + reader.pos + ctx.res.arg]_vars
    /\ [](ctx.pc = "demux" => DataStartsAt(LastEnd))

\* the seek of a skip has left the buffered window: the element was
\* buffered in part, or the target was past the end of the window
SkipLandsAfterElementWitness ==
    /\ ctx.pc = "demux"
    /\ op.name = "seek"
    /\ trail[Len(trail)].how = "skipped"
    /\ trail[Len(trail)].end = reader.buf_pos
    /\ trail[Len(trail)].end - trail[Len(trail)].start
           = ElementSize(trail[Len(trail)].start)
    /\ reader.pos = 0
    /\ reader.end = 0
    /\ reader.buf_pos > 0

(***************************************************************************)
(* C32: while the clusters are parsed, a BlockGroup whose Block belongs to *)
(* a track of the Movie is not skipped: the demuxer parses it and          *)
(* read_packet returns its Block as a Packet.                              *)
(***************************************************************************)
BlockGroupBlocksEmitted ==
    \A i \in 1..Len(trail) :
        (/\ trail[i].id = BLOCK_GROUP
         /\ \E k \in 1..Len(demuxer.movie) :
               demuxer.movie[k].id = src[trail[i].start + 5] - 128)
            => /\ trail[i].how = "parsed"
               /\ \E j \in 1..Len(emitted) : emitted[j].at = trail[i].start

(***************************************************************************)
(* C33: every track of the Movie read_headers returns has the timebase     *)
(* 1 / (TimestampScale / 1000), TimestampScale being that of the Info      *)
(* element of the file (1,000,000 when it has none), with the Info element *)
(* before or after the Tracks element.                                     *)
(***************************************************************************)
\* the TimestampScale of the Info element of the files
FileTimestampScale ==
    LET scale == parse_info(FileInfo).val.scale
    IN  IF scale = None THEN 1000000 ELSE scale[1]

TrackTimebaseFromInfo ==
    ctx.movie # None =>
        \A i \in 1..Len(ctx.movie[1]) :
            ctx.movie[1][i].timebase = Fraction(1, FileTimestampScale \div 1000)

(***************************************************************************)
(* SpecFold: ebml_master_element_fold with the closure of parse_track on   *)
(* one TrackEntry, followed by the byte of EbmlTrailer.  A child is        *)
(* [id, declared, payload]: its id, the length its header declares and the *)
(* bytes that follow the header; declared = Len(payload) in a well-formed  *)
(* child.                                                                  *)
(***************************************************************************)
Child(id, declared, payload) == [id |-> id, declared |-> declared, payload |-> payload]

FoldChildren ==
    {Child(TRACK_NUMBER, 1, <<1>>),
     Child(TRACK_NUMBER, 1, <<2>>),
     Child(TRACK_TYPE, 1, <<17>>),
     \* a child of unknown id (Void) whose payload reads as a TrackNumber
     Child(236, 3, <<215, 129, 9>>),
     \* children that declare 100 bytes, more than the parent holds
     Child(236, 100, <<0>>),
     Child(TRACK_TYPE, 100, <<1>>)}

RECURSIVE ChildSeqs(_)
ChildSeqs(n) ==
    IF n = 0 THEN {<<>>}
    ELSE ChildSeqs(n - 1) \cup
         {Append(s, c) : s \in {x \in ChildSeqs(n - 1) : Len(x) = n - 1},
                         c \in FoldChildren}

RECURSIVE ChildrenBytes(_)
ChildrenBytes(children) ==
    IF children = <<>> THEN <<>>
    ELSE <<Head(children).id, 128 + Head(children).declared>>
         \o Head(children).payload \o ChildrenBytes(Tail(children))

\* the TrackEntry with these children, and the byte after it
FoldInput(children) ==
    Elem(<<TRACK_ENTRY>>, ChildrenBytes(children)) \o EbmlTrailer

EbmlFold ==
    /\ ebml.op = "none"
    /\ \E children \in ChildSeqs(MaxChildren) :
          ebml' = [op |-> "fold", children |-> children,
                   input |-> FoldInput(children),
                   read |-> ebml_master_element_fold(TRACK_ENTRY, "track", MkvTrack,
                                                     FoldInput(children))]
    /\ UNCHANGED <<readerVars, op, poolVars, mkvVars, muxer, mux, rt, pureVars>>

NextFold == EbmlFold

SpecFold == InitEbml /\ [][NextFold]_vars

(***************************************************************************)
(* C34: for a master element of known length that is buffered whole and    *)
(* whose children are well formed, the fold answers Ok with the            *)
(* accumulator filled from the children of recognised id (the first of     *)
(* each id) and from nothing else: a child of unknown id is passed over    *)
(* with its whole payload; and the input returned starts header + declared *)
(* length bytes after the start of the master.                             *)
(***************************************************************************)
WellFormed(children) ==
    \A i \in 1..Len(children) : children[i].declared = Len(children[i].payload)

\* the value of the first child of this id, None when there is none
FirstChild(children, id) ==
    LET hits == {i \in 1..Len(children) : children[i].id = id}
    IN  IF hits = {} THEN None
        ELSE Some(from_be_bytes(children[CHOOSE i \in hits : \A j \in hits : i <= j].payload))

FoldFillsFromChildren ==
    (ebml.op = "fold" /\ WellFormed(ebml.children)) =>
        /\ ebml.read.kind = "ok"
        /\ ebml.read.val = [MkvTrack EXCEPT
                               !.number = FirstChild(ebml.children, TRACK_NUMBER),
                               !.ty = FirstChild(ebml.children, TRACK_TYPE)]
        /\ ebml.read.rest = EbmlTrailer
        /\ slice_dist(ebml.input, ebml.read.rest)
               = 2 + Len(ChildrenBytes(ebml.children))

\* an unknown child that holds the bytes of a TrackNumber, then the
\* TrackType, then a second TrackNumber
FoldFillsFromChildrenWitness ==
    /\ ebml.op = "fold"
    /\ Len(ebml.children) = 3
    /\ ebml.children[1].id = 236
    /\ ebml.children[2].id = TRACK_TYPE
    /\ ebml.children[3].id = TRACK_NUMBER
    /\ WellFormed(ebml.children)
    /\ ebml.read.kind = "ok"
    /\ ebml.read.val.number = Some(1)

(***************************************************************************)
(* C40: when a child of the master declares a length larger than what is   *)
(* left of the parent's payload, the fold returns an error value: it does  *)
(* not abort.                                                              *)
(***************************************************************************)
FoldRefusesLongChild ==
    (ebml.op = "fold" /\ ~WellFormed(ebml.children)) => ebml.read.kind = "error"

RECURSIVE AllRealized(_)
AllRealized(s) ==
    IF s.kind = "Many" THEN \A i \in 1..Len(s.spans) : AllRealized(s.spans[i])
    ELSE s.kind # "NonRealizedMemory"

UnrealizeRealizeKeepsBytes ==
    rope.op = "unrealize_realize" =>
        /\ rope.realized # None
        /\ AllRealized(rope.realized[1])
        /\ to_bytes(rope.realized[1]) = to_bytes(rope.span)

(***************************************************************************)
(* The probe of the Matroska demuxer (format/mkv/demux.rs) and             *)
(* MediaContext::find_demuxer (lib.rs).  A ProbeResult is [kind, score];   *)
(* the score counts quarters: 0.25 is 1, and 1.0 is 4.                     *)
(***************************************************************************)
Yup == [kind |-> "Yup", score |-> 0]
Maybe(score) == [kind |-> "Maybe", score |-> score]
Unsure == [kind |-> "Unsure", score |-> 0]

\* the patterns of probe: the ids big endian, and b"matroska"
ProbePatterns ==
    <<to_be_bytes(EBML_HEADER, 4),
      <<109, 97, 116, 114, 111, 115, 107, 97>>,
      to_be_bytes(SEGMENT, 4),
      to_be_bytes(CLUSTER, 4)>>

\* the patterns that match the window at its start
MatchesAt(window) ==
    {i \in 1..Len(ProbePatterns) :
        /\ Len(ProbePatterns[i]) <= Len(window)
        /\ Take(window, Len(ProbePatterns[i])) = ProbePatterns[i]}

\* ac.find_iter(data): the matches, none overlapping another, left to right
RECURSIVE find_iter(_)
find_iter(window) ==
    IF window = <<>> THEN 0
    ELSE IF MatchesAt(window) # {}
    THEN 1 + find_iter(Drop(window, Len(ProbePatterns[CHOOSE i \in MatchesAt(window) : TRUE])))
    ELSE find_iter(Drop(window, 1))

\* MatroskaDemuxer::probe
probe(window) ==
    IF find_iter(window) >= 4 THEN Yup ELSE Maybe(find_iter(window))

\* Demuxer2::probe of a demuxer that does not define it
default_probe(window) == Unsure

\* PartialOrd for ProbeResult: accum >= m
probe_ge(a, b) ==
    IF a.kind = "Yup" THEN TRUE
    ELSE IF b.kind = "Yup" THEN FALSE
    ELSE IF a.kind = "Maybe" /\ b.kind = "Maybe" THEN a.score >= b.score
    ELSE IF a.kind = "Unsure" THEN FALSE
    ELSE TRUE

\* the reduce of find_demuxer over the registered demuxers in the order
\* the map hands them out: metas is a sequence of [name, result]
RECURSIVE reduce_best(_, _)
reduce_best(accum, metas) ==
    IF metas = <<>> THEN accum
    ELSE reduce_best(IF probe_ge(accum.result, Head(metas).result) THEN accum
                     ELSE Head(metas),
                     Tail(metas))

\* MediaContext::find_demuxer: Some(name) of the demuxer selected
find_demuxer(metas) ==
    IF metas = <<>> THEN None
    ELSE Bind(reduce_best(Head(metas), Tail(metas)), LAMBDA best :
            IF best.result # Unsure THEN Some(best.name) ELSE None)

(***************************************************************************)
(* SpecProbe: find_demuxer on one probe window, with the Matroska demuxer  *)
(* and a demuxer of the default probe registered, in either order.         *)
(***************************************************************************)
ProbeChunks ==
    {ProbePatterns[i] : i \in 1..Len(ProbePatterns)}
    \cup {<<0>>, <<26, 69, 223>>}

RECURSIVE ProbeWindows(_)
ProbeWindows(n) ==
    IF n = 0 THEN {<<>>}
    ELSE ProbeWindows(n - 1) \cup
         {w \o c : w \in ProbeWindows(n - 1), c \in ProbeChunks}

InitProbe ==
    /\ probed = [op |-> "none"]
    /\ rope = [op |-> "none"]
    /\ nal = [op |-> "none"]
    /\ ebml = [op |-> "none"]
    /\ muxer = NewMuxer
    /\ mux = [pc |-> "idle"]
    /\ rt = [pc |-> "idle"]
    /\ ReaderUnused
    /\ op = [name |-> "new"]
    /\ PoolUnused
    /\ MkvUnused

ProbeFindDemuxer ==
    /\ probed.op = "none"
    /\ \E window \in ProbeWindows(MaxChunks), mkv_first \in BOOLEAN :
          LET mkv == [name |-> "mkv", result |-> probe(window)]
              other == [name |-> "rtmp", result |-> default_probe(window)]
          IN  probed' = [op |-> "find_demuxer", data |-> window,
                         result |-> probe(window),
                         found |-> find_demuxer(IF mkv_first THEN <<mkv, other>>
                                                ELSE <<other, mkv>>)]
    /\ UNCHANGED <<readerVars, op, poolVars, mkvVars, ebml, muxer, mux, rt, rope, nal>>

NextProbe == ProbeFindDemuxer

SpecProbe == InitProbe /\ [][NextProbe]_vars

(***************************************************************************)
(* C37: the probe counts the occurrences of the four signatures in the     *)
(* window: it answers Yup for four or more, Maybe for one to three and     *)
(* Unsure for none, and find_demuxer does not select the Matroska demuxer  *)
(* for a window without a signature.                                       *)
(***************************************************************************)
\* the occurrences of the signatures in the window: the positions a
\* pattern starts at (no two signatures overlap)
Occurrences(window) ==
    Cardinality({k \in 0..Len(window) : MatchesAt(Drop(window, k)) # {}})

ProbeGradesBySignatures ==
    probed.op = "find_demuxer" =>
        /\ probed.result.kind =
               (IF Occurrences(probed.data) >= 4 THEN "Yup"
                ELSE IF Occurrences(probed.data) >= 1 THEN "Maybe"
                ELSE "Unsure")
        /\ Occurrences(probed.data) = 0 => probed.found # Some("mkv")

(***************************************************************************)
(* C38: every vector the pool created is in exactly one place: held by one *)
(* Memory (which realized spans may share), in the return channel, or in   *)
(* the free list; alloc_count is the number of vectors in the three        *)
(* places together; and no vector is handed out while a Memory or a        *)
(* realized span still references it.                                      *)
(***************************************************************************)
SeqIds(s) == {s[i].id : i \in 1..Len(s)}

HeldIds(t) == {m.id : m \in held[t]}

OutstandingIds == UNION {HeldIds(t) : t \in Threads}

PoolConservation ==
    /\ [](/\ Cardinality(SeqIds(pool)) = Len(pool)
          /\ Cardinality(SeqIds(chan)) = Len(chan)
          /\ \A t \in Threads : Cardinality(HeldIds(t)) = Cardinality(held[t])
          /\ \A t, u \in Threads : t # u => HeldIds(t) \cap HeldIds(u) = {}
          /\ SeqIds(pool) \cap SeqIds(chan) = {}
          /\ SeqIds(pool) \cap OutstandingIds = {}
          /\ SeqIds(chan) \cap OutstandingIds = {}
          /\ SeqIds(pool) \cup SeqIds(chan) \cup OutstandingIds = 1..alloc_count
          /\ alloc_count = Len(pool) + Len(chan) + Cardinality(OutstandingIds)
          /\ \A id \in 1..MaxAllocs : refs[id] > 0 => id \in OutstandingIds)
    /\ [][\A t \in Threads : \A m \in held'[t] :
              m.id \notin HeldIds(t) =>
                  /\ m.id \notin OutstandingIds
                  /\ refs[m.id] = 0
                  /\ m.id \in SeqIds(pool) \cup SeqIds(chan) \cup {alloc_count + 1}
                  /\ m.id \notin SeqIds(pool') \cup SeqIds(chan')]_vars

\* the vector dropped last is handed out again, while realized fragments
\* share the Memory of a vector that is held, and the pool has created
\* all the vectors it may
PoolConservationWitness ==
    /\ op.name \in {"alloc", "try_alloc"}
    /\ op.res # None
    /\ op.dropped # None
    /\ op.res[1].id = op.dropped[1].id
    /\ \E t \in Threads : \E m \in held[t] : refs[m.id] = MaxRefs
    /\ alloc_count = MaxAllocs

(***************************************************************************)
(* C39: every call of read_headers and of read_packet of the context on a  *)
(* finite seekable source returns after finitely many turns: a turn that   *)
(* goes on consumes input, a Seek arm moves the position forward, a        *)
(* NeedMore arm reads at least one new byte or ends the call at the end of *)
(* the file; and this holds with a capped pool while the caller holds      *)
(* earlier packets.                                                        *)
(***************************************************************************)
InCall == ctx.pc \in {"demux", "fill", "seek", "recv"}

Position == reader.buf_pos + reader.pos

BytesRead == reader.buf_pos + reader.end

LoopTurnsProgress ==
    [][/\ (ctx.pc = "demux" /\ ctx'.pc = "demux") => Position' > Position
       /\ (ctx.pc = "seek" /\ ctx'.pc = "demux") => Position' > Position
       /\ (ctx.pc = "fill" /\ ctx'.pc = "demux") => BytesRead' > BytesRead]_vars

ContextCallsReturn ==
    /\ InCall ~> ~InCall
    /\ LoopTurnsProgress

=============================================================================
